---- MODULE Spec2Model ----
(***************************************************************************)
(* A model of the resolution engine of xknxproject: the group-address      *)
(* formatting, the reference-grammar helpers of util.py, and the           *)
(* load / sort / transform pipeline of XMLParser.                          *)
(*                                                                         *)
(* Python strings are modelled as sequences of one-character strings, so   *)
(* that formatting, splitting and regular-expression matching are          *)
(* computed character by character, as the code computes them.             *)
(***************************************************************************)
EXTENDS Integers, Sequences, FiniteSets, TLC

VARIABLES
    pc,                     \* position of the run: "call" -> "done", or the parser's phase
    args,                   \* arguments of the function under examination
    result,                 \* its return value (NoResult before the call)
    xml,                    \* the project XML handed to XMLParser (devices, group addresses)
    group_addresses,        \* XMLParser.group_addresses
    devices,                \* XMLParser.devices
    project,                \* the KNXProject returned by XMLParser._transform
    functions,              \* XMLParser.functions
    raised,                 \* the exception that ended the run (None while there is none)
    zip_archive,            \* extract: the handle of the outer archive
    project_archive_file,   \* extract: the stream of the inner, protected project archive
    contents,               \* extract: the KNXProjContents yielded to the scope (Nothing before)
    todo                    \* the operations the body of the extract scope has yet to do

parserVars == <<xml, group_addresses, devices, project, functions>>
extractVars == <<zip_archive, project_archive_file, contents, todo>>
vars == <<pc, args, result, raised, parserVars, extractVars>>

\* Python's None where a string may stand: a sequence no text equals.
None == <<"None">>
NoResult == <<"NoResult">>
\* An optional record or integer is a sequence of no or one element.
Nothing == <<>>
Some(x) == <<x>>

\* A local variable of the code: body of the value, which is computed once.
With(value, body(_)) == body(value)
\* The states of a file handle.
Unopened == "unopened"
Opened == "open"
ClosedHandle == "closed"

(***************************************************************************)
(* Character-sequence helpers.                                             *)
(***************************************************************************)
Max(S) == CHOOSE x \in S : \A y \in S : y <= x
Min(S) == CHOOSE x \in S : \A y \in S : x <= y

\* text[a..b] with 1-based inclusive positions; empty when b < a.
Slice(s, a, b) == IF b < a THEN <<>> ELSE SubSeq(s, a, b)

\* TRUE iff the literal lit stands in s at position p.
At(s, p, lit) ==
    /\ p >= 1
    /\ p + Len(lit) - 1 <= Len(s)
    /\ \A i \in 1..Len(lit) : s[p + i - 1] = lit[i]

RECURSIVE Concat(_)
Concat(ss) == IF ss = <<>> THEN <<>> ELSE Head(ss) \o Concat(Tail(ss))

\* sep.join(parts)
RECURSIVE Join(_, _)
Join(parts, sep) ==
    IF parts = <<>> THEN <<>>
    ELSE IF Len(parts) = 1 THEN parts[1]
    ELSE parts[1] \o sep \o Join(Tail(parts), sep)

DigitChars == <<"0", "1", "2", "3", "4", "5", "6", "7", "8", "9">>
IsDigit(c) == \E i \in 1..10 : DigitChars[i] = c
DigitValue(c) == (CHOOSE i \in 1..10 : DigitChars[i] = c) - 1

\* Python str(n) for n >= 0.
RECURSIVE str(_)
str(n) ==
    IF n < 10 THEN <<DigitChars[n + 1]>>
    ELSE Append(str(n \div 10), DigitChars[(n % 10) + 1])

\* s.split(sep) for a one-character separator.
RECURSIVE SplitOn(_, _)
SplitOn(s, sep) ==
    IF \E i \in 1..Len(s) : s[i] = sep
    THEN LET i == Min({j \in 1..Len(s) : s[j] = sep})
         IN  <<Slice(s, 1, i - 1)>> \o SplitOn(Slice(s, i + 1, Len(s)), sep)
    ELSE <<s>>

\* The value of a run of decimal digits.
RECURSIVE DecimalValue(_)
DecimalValue(s) ==
    IF s = <<>> THEN 0
    ELSE 10 * DecimalValue(Slice(s, 1, Len(s) - 1)) + DigitValue(s[Len(s)])

IsDecimal(s) == s # <<>> /\ \A i \in 1..Len(s) : IsDigit(s[i])

\* Python a & b on non-negative integers.
RECURSIVE BitAnd(_, _)
BitAnd(a, b) ==
    IF a = 0 \/ b = 0 THEN 0
    ELSE 2 * BitAnd(a \div 2, b \div 2) + (IF a % 2 = 1 /\ b % 2 = 1 THEN 1 ELSE 0)

\* Python a >> n.
ShiftRight(a, n) == a \div (2 ^ n)

(***************************************************************************)
(* XMLGroupAddress.str_address                                             *)
(***************************************************************************)
FREE == "Free"
TWOLEVEL == "TwoLevel"
THREELEVEL == "ThreeLevel"
GroupAddressStyle == {FREE, TWOLEVEL, THREELEVEL}

\* The width of a raw group address: the masks of str_address cover 16 bits.
RawBits == 16
MaxRaw == (2 ^ RawBits) - 1

MainMask == 63488       \* 0b1111100000000000
MiddleMask == 1792      \* 0b11100000000
SubMask3 == 255         \* 0b11111111
SubMask2 == 2047        \* 0b11111111111

\* A plausible slip: the middle group shifted like the main group.
str_address_WrongShift(raw_address, group_address_style) ==
    IF group_address_style = FREE THEN str(raw_address)
    ELSE LET main == ShiftRight(BitAnd(raw_address, MainMask), 11) IN
         IF group_address_style = THREELEVEL
         THEN LET middle == ShiftRight(BitAnd(raw_address, MiddleMask), 11)
                  sub == BitAnd(raw_address, SubMask3)
              IN  str(main) \o <<"/">> \o str(middle) \o <<"/">> \o str(sub)
         ELSE LET sub == BitAnd(raw_address, SubMask2)
              IN  str(main) \o <<"/">> \o str(sub)

str_address(raw_address, group_address_style) ==
    IF group_address_style = FREE THEN str(raw_address)
    ELSE LET main == ShiftRight(BitAnd(raw_address, MainMask), 11) IN
         IF group_address_style = THREELEVEL
         THEN LET middle == ShiftRight(BitAnd(raw_address, MiddleMask), 8)
                  sub == BitAnd(raw_address, SubMask3)
              IN  str(main) \o <<"/">> \o str(middle) \o <<"/">> \o str(sub)
         ELSE LET sub == BitAnd(raw_address, SubMask2)
              IN  str(main) \o <<"/">> \o str(sub)

(***************************************************************************)
(* The regular-expression classes used by util.py.                         *)
(***************************************************************************)
Letters ==
    {"A", "B", "C", "D", "E", "F", "G", "H", "I", "J", "K", "L", "M",
     "N", "O", "P", "Q", "R", "S", "T", "U", "V", "W", "X", "Y", "Z",
     "a", "b", "c", "d", "e", "f", "g", "h", "i", "j", "k", "l", "m",
     "n", "o", "p", "q", "r", "s", "t", "u", "v", "w", "x", "y", "z"}

\* \w
IsWord(c) == c \in Letters \/ IsDigit(c) \/ c = "_"

\* The positions e at which a greedy \w+ that starts at p may end.
WordEnds(s, p) ==
    {e \in p..Len(s) : \A i \in p..e : IsWord(s[i])}

\* The positions of the closing "_" of the group (<lit>\w+_) opened at p.
GroupEnds(s, p, lit) ==
    IF At(s, p, lit)
    THEN {e + 1 : e \in {w \in WordEnds(s, p + Len(lit)) : At(s, w + 1, <<"_">>)}}
    ELSE {}

MD == <<"M", "D", "-">>
SM == <<"S", "M", "-">>
Dash == <<"-">>
Underscore == <<"_">>

(***************************************************************************)
(* util.strip_module_instance: re.sub of the pattern                       *)
(*   [MD-group]? [lazy any] [SM-group]? [search_id "-" any]                *)
(* by the concatenation of its three groups.                               *)
(***************************************************************************)
\* The tail of the pattern tried at position p: the lazy run stops at the
\* first q where the optional SM group (longest first) or nothing is
\* followed by search_id and a dash; the last group runs to the end.
TailStarts(s, p, search_id) ==
    {q \in p..Len(s) :
        \/ \E g \in GroupEnds(s, q, SM) : At(s, g + 1, search_id \o Dash)
        \/ At(s, q, search_id \o Dash)}

TailGroups(s, p, search_id) ==
    LET q == Min(TailStarts(s, p, search_id))
        sm == {g \in GroupEnds(s, q, SM) : At(s, g + 1, search_id \o Dash)}
    IN  IF sm # {}
        THEN <<Slice(s, q, Max(sm)), Slice(s, Max(sm) + 1, Len(s))>>
        ELSE <<<<>>, Slice(s, q, Len(s))>>

\* The groups of the match that starts at position start, or <<>> if the
\* pattern does not match there. The optional MD group is tried longest
\* first and given up only if the tail cannot match behind it.
MatchGroups(s, start, search_id) ==
    LET md == {e \in GroupEnds(s, start, MD) : TailStarts(s, e + 1, search_id) # {}}
    IN  IF md # {}
        THEN <<Slice(s, start, Max(md))>> \o TailGroups(s, Max(md) + 1, search_id)
        ELSE IF TailStarts(s, start, search_id) # {}
        THEN <<<<>>>> \o TailGroups(s, start, search_id)
        ELSE <<>>

\* A plausible slip: the capture of the last group opened behind "<search_id>-".
strip_module_instance_DropsKind(text, search_id) ==
    LET starts == {p \in 1..Len(text) : MatchGroups(text, p, search_id) # <<>>}
    IN  IF starts = {} THEN text
        ELSE LET p == Min(starts)
                 groups == MatchGroups(text, p, search_id)
             IN  Slice(text, 1, p - 1) \o groups[1] \o groups[2]
                 \o Slice(groups[3], Len(search_id) + 2, Len(groups[3]))

\* re.sub replaces the leftmost match; the match runs to the end of the
\* text, so there is at most one.
strip_module_instance(text, search_id) ==
    LET starts == {p \in 1..Len(text) : MatchGroups(text, p, search_id) # <<>>}
    IN  IF starts = {} THEN text
        ELSE LET p == Min(starts)
             IN  Slice(text, 1, p - 1) \o Concat(MatchGroups(text, p, search_id))

(***************************************************************************)
(* util.get_module_instance_part: re.search of the pattern                 *)
(*   ["MD-" greedy any] "_" next_id "-"                                    *)
(***************************************************************************)
\* The positions of "_<next_id>-" that the greedy .* opened at p may stop before.
PartEnds(ref, p, next_id) ==
    IF At(ref, p, MD)
    THEN {q \in (p + 3)..Len(ref) : At(ref, q, Underscore \o next_id \o Dash)}
    ELSE {}

get_module_instance_part(ref, next_id) ==
    LET starts == {p \in 1..Len(ref) : PartEnds(ref, p, next_id) # {}}
    IN  IF starts = {} THEN <<>>
        ELSE LET p == Min(starts)
             IN  Slice(ref, p, Max(PartEnds(ref, p, next_id)) - 1)

(***************************************************************************)
(* util.text_parameter_template_replace: re.sub of the pattern             *)
(*   "{{0" [":"]? [lazy any, the group] "}}"                               *)
(* by the parameter's value or, if that is None or empty, by the group.    *)
(***************************************************************************)
Open0 == <<"{", "{", "0">>
Close == <<"}", "}">>
Colon == <<":">>

\* Where the group of a match opened at p starts: behind the optional colon.
GroupStart(text, p) == IF At(text, p + 3, Colon) THEN p + 4 ELSE p + 3

\* The positions of "}}" that may close a match opened at p.
Closings(text, p) ==
    IF At(text, p, Open0)
    THEN {e \in GroupStart(text, p)..Len(text) : At(text, e, Close)}
    ELSE {}

\* Python truthiness of  parameter_value or group .
Truthy(value) == value # None /\ value # <<>>

RECURSIVE template_sub(_, _)
template_sub(text, parameter_value) ==
    LET starts == {p \in 1..Len(text) : Closings(text, p) # {}}
    IN  IF starts = {} THEN text
        ELSE LET p == Min(starts)
                 e == Min(Closings(text, p))
                 group == Slice(text, GroupStart(text, p), e - 1)
             IN  Slice(text, 1, p - 1)
                 \o (IF Truthy(parameter_value) THEN parameter_value ELSE group)
                 \o template_sub(Slice(text, e + 2, Len(text)), parameter_value)

text_parameter_template_replace(text, parameter) ==
    LET parameter_value == IF parameter # Nothing THEN parameter[1].value ELSE None
    IN  template_sub(text, parameter_value)

(***************************************************************************)
(* util.parse_dpt_types                                                    *)
(***************************************************************************)
MAIN_DPT == <<"D", "P", "T">>
MAIN_AND_SUB_DPT == <<"D", "P", "S", "T">>

IsSpace(c) == c = " "

\* str.split(): the maximal runs of non-whitespace characters.
RECURSIVE split(_)
split(s) ==
    IF s = <<>> THEN <<>>
    ELSE IF IsSpace(s[1]) THEN split(Tail(s))
    ELSE LET stops == {i \in 1..Len(s) : IsSpace(s[i])}
             e == IF stops = {} THEN Len(s) ELSE Min(stops) - 1
         IN  <<Slice(s, 1, e)>> \o split(Slice(s, e + 1, Len(s)))

\* list(dict.fromkeys(seq)): first occurrences, in order.
RECURSIVE fromkeys(_)
fromkeys(seq) ==
    IF seq = <<>> THEN <<>>
    ELSE LET init == fromkeys(Slice(seq, 1, Len(seq) - 1))
             last == seq[Len(seq)]
         IN  IF \E i \in 1..Len(init) : init[i] = last THEN init ELSE Append(init, last)

\* int(s) succeeds on a non-empty run of digits (the tokens hold letters,
\* digits and dashes only); otherwise it raises ValueError.
IntOk(s) == IsDecimal(s)

\* sub is Nothing or Some(m).
DPTType(main, sub) == [main |-> main, sub |-> sub]

\* What one token appends to supported_dpts; IndexError and ValueError are
\* caught and leave the list as it is.
dpt_of_token(_dpt) ==
    LET dpt_parts == SplitOn(_dpt, "-") IN
    IF dpt_parts[1] = MAIN_DPT
    THEN IF Len(dpt_parts) >= 2 /\ IntOk(dpt_parts[2])
         THEN <<DPTType(DecimalValue(dpt_parts[2]), Nothing)>>
         ELSE <<>>
    ELSE IF dpt_parts[1] = MAIN_AND_SUB_DPT
    THEN IF Len(dpt_parts) >= 3 /\ IntOk(dpt_parts[2]) /\ IntOk(dpt_parts[3])
         THEN <<DPTType(DecimalValue(dpt_parts[2]), Some(DecimalValue(dpt_parts[3])))>>
         ELSE <<>>
    ELSE <<>>

RECURSIVE dpts_of_tokens(_)
dpts_of_tokens(tokens) ==
    IF tokens = <<>> THEN <<>>
    ELSE dpt_of_token(Head(tokens)) \o dpts_of_tokens(Tail(tokens))

parse_dpt_types(dpt_string) ==
    IF dpt_string = None \/ dpt_string = <<>> THEN <<>>
    ELSE dpts_of_tokens(fromkeys(split(dpt_string)))

(***************************************************************************)
(* Python containers: a dict is the sequence of its items in insertion     *)
(* order; list.sort is stable.                                             *)
(***************************************************************************)
DictKeys(d) == {d[i].key : i \in 1..Len(d)}
DictGet(d, k) == d[CHOOSE i \in 1..Len(d) : d[i].key = k].value

\* d[k] = v: an existing key keeps its place and takes the new value.
DictSet(d, k, v) ==
    IF k \in DictKeys(d)
    THEN [i \in 1..Len(d) |-> IF d[i].key = k THEN [key |-> k, value |-> v] ELSE d[i]]
    ELSE Append(d, [key |-> k, value |-> v])

\* Comparison of Python tuples of integers of the same length.
TupleLess(a, b) ==
    \E i \in 1..Len(a) : a[i] < b[i] /\ \A j \in 1..(i - 1) : a[j] = b[j]

\* A sorted sequence of <<key, item>> pairs with one more pair put behind
\* every pair whose key is not greater.
InsertPair(sorted_pairs, pair) ==
    LET before == {i \in 1..Len(sorted_pairs) : ~TupleLess(pair[1], sorted_pairs[i][1])}
        n == IF before = {} THEN 0 ELSE Max(before)
    IN  Slice(sorted_pairs, 1, n) \o <<pair>> \o Slice(sorted_pairs, n + 1, Len(sorted_pairs))

RECURSIVE SortPairs(_)
SortPairs(pairs) ==
    IF pairs = <<>> THEN <<>>
    ELSE InsertPair(SortPairs(Slice(pairs, 1, Len(pairs) - 1)), pairs[Len(pairs)])

Items(pairs) == [i \in 1..Len(pairs) |-> pairs[i][2]]

\* The exceptions that end an operation.
UnexpectedDataError == <<"UnexpectedDataError">>
KeyError == <<"KeyError">>
InvalidPasswordException == <<"InvalidPasswordException">>
ProjectNotFoundException == <<"ProjectNotFoundException">>
UnexpectedFileContent == <<"UnexpectedFileContent">>
RuntimeError == <<"RuntimeError">>
BadZipFile == <<"BadZipFile">>
UnboundLocalError == <<"UnboundLocalError">>
ValueError == <<"ValueError">>
IndexError == <<"IndexError">>

\* str.startswith, str.endswith and str.removesuffix.
startswith(s, prefix) == At(s, 1, prefix)
endswith(s, suffix) == At(s, Len(s) - Len(suffix) + 1, suffix)
removesuffix(s, suffix) ==
    IF endswith(s, suffix) THEN Slice(s, 1, Len(s) - Len(suffix)) ELSE s

(***************************************************************************)
(* models: module instances and the base number of an instance ref.        *)
(***************************************************************************)

\* The first position of lit in s, 0 when s does not hold it.
find(s, lit) ==
    LET places == {p \in 1..Len(s) : At(s, p, lit)}
    IN  IF places = {} THEN 0 ELSE Min(places)

\* s.split(sep, maxsplit=1): one part, or the parts before and behind the
\* first sep.
split_once(s, sep) ==
    LET p == find(s, sep)
    IN  IF p = 0 THEN <<s>>
        ELSE <<Slice(s, 1, p - 1), Slice(s, p + Len(sep), Len(s))>>

\* int(s) for the texts of the XML attributes: digits behind an optional
\* sign; anything else raises ValueError.
int(s) ==
    LET signed == s # <<>> /\ s[1] \in {"-", "+"}
        digits == IF signed THEN Tail(s) ELSE s
    IN  IF IsDecimal(digits)
        THEN [raised |-> None,
              value |-> IF signed /\ s[1] = "-" THEN 0 - DecimalValue(digits)
                        ELSE DecimalValue(digits)]
        ELSE [raised |-> ValueError, value |-> 0]

MDPrefix == <<"M", "D", "-">>
SMInfix == <<"_", "S", "M", "-">>
MIInfix == <<"_", "M", "I", "-">>

\* re.search of "_SM-" and one or more characters other than "_": the
\* matched text, Nothing without a match.
submodule_match(identifier) ==
    LET places == {p \in 1..Len(identifier) :
                      /\ At(identifier, p, SMInfix)
                      /\ p + 4 <= Len(identifier)
                      /\ identifier[p + 4] # "_"}
    IN  IF places = {} THEN Nothing
        ELSE LET p == Min(places)
                 stops == {q \in (p + 4)..Len(identifier) : identifier[q] = "_"}
                 last == IF stops = {} THEN Len(identifier) ELSE Min(stops) - 1
             IN  Some(Slice(identifier, p, last))

\* ModuleInstanceArgument; the name is that of the application program.
ModuleInstanceArgument(ref_id, value, allocates) ==
    [ref_id |-> ref_id, value |-> value, name |-> <<>>, allocates |-> allocates]

\* ModuleInstance with its __post_init__.
ModuleInstance(identifier, ref_id, arguments) ==
    LET module_def_id == split_once(ref_id, Underscore)[1]
        match == submodule_match(identifier)
    IN  [identifier |-> identifier,
         ref_id |-> ref_id,
         arguments |-> arguments,
         module_def_id |-> module_def_id,
         base_module |-> IF match # Nothing THEN split_once(identifier, SMInfix)[1]
                         ELSE None,
         definition_id |-> IF match # Nothing THEN module_def_id \o match[1]
                           ELSE module_def_id]

\* A plausible slip: the index of the module instance is not reduced by one.
base_number_from_allocator_IndexFromOne(self, base_number_argument, application_allocators) ==
    LET found == SelectSeq(application_allocators, LAMBDA item :
                    item.value.identifier =
                        self.application_program_id_prefix \o base_number_argument.value)
        tail == split_once(self.ref_id, MIInfix)
        index == int(split_once(tail[2], Underscore)[1])
    IN  IF found = <<>> THEN [raised |-> UnexpectedDataError, value |-> 0]
        ELSE IF base_number_argument.allocates = Nothing THEN [raised |-> None, value |-> 0]
        ELSE [raised |-> None,
              value |-> found[1].value.start + base_number_argument.allocates[1] * index.value]

\* ComObjectInstanceRef._base_number_from_allocator
base_number_from_allocator(self, base_number_argument, application_allocators) ==
    LET found == SelectSeq(application_allocators, LAMBDA item :
                    item.value.identifier =
                        self.application_program_id_prefix \o base_number_argument.value)
        tail == split_once(self.ref_id, MIInfix)
        index == int(split_once(tail[2], Underscore)[1])
    IN  IF found = <<>> THEN [raised |-> UnexpectedDataError, value |-> 0]
        ELSE IF base_number_argument.allocates = Nothing THEN [raised |-> None, value |-> 0]
        ELSE IF Len(tail) < 2 THEN [raised |-> IndexError, value |-> 0]
        ELSE IF index.raised # None THEN [raised |-> ValueError, value |-> 0]
        ELSE [raised |-> None,
              value |-> found[1].value.start
                        + base_number_argument.allocates[1] * (index.value - 1)]

\* _parse_base_number_argument, the local function of
\* apply_module_base_number_argument.
RECURSIVE parse_base_number_argument(_, _, _, _, _)
parse_base_number_argument(self, module_instance, base_number_argument_ref, module_instances, application) ==
    LET args_found == SelectSeq(module_instance.arguments,
                        LAMBDA arg : arg.ref_id = base_number_argument_ref)
    IN  IF args_found = <<>> THEN [raised |-> UnexpectedDataError, value |-> 0]
        ELSE
        LET base_number_argument == args_found[1]
            number == int(base_number_argument.value)
        IN  IF number.raised = None THEN number
            ELSE
            LET num_arg_known == base_number_argument.ref_id \in DictKeys(application.numeric_args)
                base_value_ref ==
                    IF Truthy(module_instance.base_module) /\ num_arg_known
                    THEN DictGet(application.numeric_args, base_number_argument.ref_id).base_value
                    ELSE None
                base_modules == SelectSeq(module_instances,
                                    LAMBDA mi : mi.identifier = module_instance.base_module)
                base == IF base_value_ref = None THEN [raised |-> None, value |-> 0]
                        ELSE IF base_modules = <<>>
                        THEN [raised |-> UnexpectedDataError, value |-> 0]
                        ELSE parse_base_number_argument(self, base_modules[1], base_value_ref,
                                                        module_instances, application)
                allocated == base_number_from_allocator(self, base_number_argument,
                                                        application.allocators)
            IN  IF base.raised # None THEN base
                ELSE IF allocated.raised # None THEN allocated
                ELSE [raised |-> None, value |-> base.value + allocated.value]

\* apply_module_base_number_argument, its guard: nothing is to be done.
base_number_not_applicable(self) ==
    \/ self.base_number_argument_ref = None
    \/ ~startswith(self.ref_id, MDPrefix)
    \/ self.number = Nothing

\* apply_module_base_number_argument, its choice of _module_instance: the
\* first module instance whose identifier and "_" start the ref_id; Nothing
\* stands for StopIteration.
find_module_instance(self, module_instances) ==
    LET owners == SelectSeq(module_instances,
                    LAMBDA mi : startswith(self.ref_id, mi.identifier \o Underscore))
    IN  IF owners = <<>> THEN Nothing ELSE Some(owners[1])

\* apply_module_base_number_argument, its last statements: the number is
\* raised by the offset and the module infos are set.
apply_base_number(self, module_instance, base_number) ==
    [self EXCEPT
        !.number = Some(self.number[1] + base_number),
        !.module = Some([definition |-> module_instance.definition_id,
                         root_number |-> self.number[1]])]

(***************************************************************************)
(* ProjectLoader.load: the group addresses and the device instances of     *)
(* the project XML.                                                        *)
(***************************************************************************)
\* XMLGroupAddress.__init__; the Id attribute "<project>_<local>" is given
\* as the pair of its two parts, identifier.split("_", 1)[1] is the second.
XMLGroupAddress(element, style) ==
    [identifier |-> element.Id[2],
     raw_address |-> element.Address,
     style |-> style,
     address |-> str_address(element.Address, style)]

\* Element.get: the attribute of an element, None where it has none.
get(element, attribute) ==
    IF attribute \in DOMAIN element THEN element[attribute] ELSE None

\* util.parse_xml_flag: an optional boolean, Nothing standing for None.
parse_xml_flag(flag, default) ==
    IF flag = None THEN default ELSE Some(flag = <<"E", "n", "a", "b", "l", "e", "d">>)

\* _create_com_object_instance: the Links attribute is given as the list
\* links.split(" ") yields, the empty list standing for a missing attribute;
\* an instance ref without links is not created.
create_com_object_instances(elements) ==
    LET kept == SelectSeq(elements, LAMBDA e : e.Links # <<>>)
    IN  [i \in 1..Len(kept) |->
            [ref_id |-> kept[i].RefId,
             text |-> get(kept[i], "Text"),
             function_text |-> get(kept[i], "FunctionText"),
             read_flag |-> parse_xml_flag(get(kept[i], "ReadFlag"), Nothing),
             write_flag |-> parse_xml_flag(get(kept[i], "WriteFlag"), Nothing),
             communication_flag |->
                parse_xml_flag(get(kept[i], "CommunicationFlag"), Nothing),
             transmit_flag |-> parse_xml_flag(get(kept[i], "TransmitFlag"), Nothing),
             update_flag |-> parse_xml_flag(get(kept[i], "UpdateFlag"), Nothing),
             read_on_init_flag |->
                parse_xml_flag(get(kept[i], "ReadOnInitFlag"), Nothing),
             datapoint_types |-> parse_dpt_types(get(kept[i], "DatapointType")),
             object_size |-> None,
             links |-> kept[i].Links,
             application_program_id_prefix |-> <<>>,
             com_object_ref_id |-> None,
             name |-> None,
             base_number_argument_ref |-> None,
             number |-> Nothing,
             module |-> Nothing]]

\* The Channel nodes of the GroupObjectTree; a node without
\* GroupObjectInstances is skipped.
create_channels(elements) ==
    LET kept == SelectSeq(elements, LAMBDA e : e.GroupObjectInstances # <<>>)
    IN  [i \in 1..Len(kept) |->
            [ref_id |-> kept[i].RefId,
             name |-> kept[i].Text,
             group_object_instances |-> kept[i].GroupObjectInstances]]

\* _create_module_instance
create_module_instances(elements) ==
    [i \in 1..Len(elements) |->
        ModuleInstance(elements[i].Id, elements[i].RefId,
            [a \in 1..Len(elements[i].Arguments) |->
                ModuleInstanceArgument(elements[i].Arguments[a].RefId,
                                       elements[i].Arguments[a].Value, Nothing)])]

\* The loop over the ParameterInstanceRef elements of a device: the dict
\* of the parameter instances by RefId, a later element replacing an
\* earlier one with the same RefId.
create_parameter_instances(elements) ==
    LET Fill[i \in 0..Len(elements)] ==
            IF i = 0 THEN <<>>
            ELSE DictSet(Fill[i - 1], elements[i].RefId,
                         [ref_id |-> elements[i].RefId,
                          value |-> get(elements[i], "Value")])
    IN  Fill[Len(elements)]

Dot == <<".">>

\* _create_device followed by DeviceInstance.__init__, for an element that
\* has an Address.
DeviceInstance(element) ==
    [address |-> element.Address[1],
     area_address |-> element.Area,
     line_address |-> element.Line,
     individual_address |->
        str(element.Area) \o Dot \o str(element.Line) \o Dot \o str(element.Address[1]),
     product_ref |-> element.ProductRefId,
     hardware_program_ref |-> element.Hardware2ProgramRefId,
     application_program_ref |-> None,
     module_instances |-> create_module_instances(element.ModuleInstances),
     parameter_instance_refs |->
        IF "ParameterInstanceRefs" \in DOMAIN element
        THEN create_parameter_instances(element.ParameterInstanceRefs)
        ELSE <<>>,
     com_object_instance_refs |-> create_com_object_instances(element.ComObjectInstanceRefs),
     channels |-> create_channels(element.Channels)]

\* Devices like power supplies have no Address and are not created.
load_devices(elements) ==
    LET kept == SelectSeq(elements, LAMBDA e : e.Address # Nothing)
    IN  [i \in 1..Len(kept) |-> DeviceInstance(kept[i])]

load_group_addresses(elements, style) ==
    [i \in 1..Len(elements) |-> XMLGroupAddress(elements[i], style)]

\* _LocationLoader.parse_functions: the Function nodes of the locations, in
\* document order; Id and RefId are "<project>_<local>", split("_", 1)[1] is
\* the local part. A reference starts without an address.
parse_functions(node) ==
    [identifier |-> node.Id[2],
     group_addresses |->
        [i \in 1..Len(node.GroupAddressRefs) |->
            [ref_id |-> node.GroupAddressRefs[i].RefId[2],
             role |-> node.GroupAddressRefs[i].Role,
             address |-> <<>>]]]

load_functions(elements) ==
    [i \in 1..Len(elements) |-> parse_functions(elements[i])]

\* A plausible slip: next(..., None) in place of the StopIteration handler,
\* so that a reference to a missing group address keeps no address.
lookup_group_address_Lenient(group_address_list, ref_id) ==
    LET found == SelectSeq(group_address_list, LAMBDA ga : ga.identifier = ref_id)
    IN  IF found = <<>> THEN <<>> ELSE found[1].address

\* next(ga.address for ga in group_address_list if ga.identifier == ref_id):
\* the address of the first group address with the identifier, or
\* UnexpectedDataError for the StopIteration.
lookup_group_address(group_address_list, ref_id) ==
    LET found == SelectSeq(group_address_list, LAMBDA ga : ga.identifier = ref_id)
    IN  IF found = <<>> THEN UnexpectedDataError ELSE found[1].address

\* The loop over the functions at the end of ProjectLoader.load: every
\* reference gets its address; the first one that names no group address
\* raises.
resolve_functions(function_list, group_address_list) ==
    LET addressed ==
            [f \in 1..Len(function_list) |->
                LET refs == function_list[f].group_addresses
                IN  [function_list[f] EXCEPT !.group_addresses =
                        [i \in 1..Len(refs) |->
                            [refs[i] EXCEPT !.address =
                                lookup_group_address(group_address_list, refs[i].ref_id)]]]]
        failed == \E f \in 1..Len(addressed) :
                      \E i \in 1..Len(addressed[f].group_addresses) :
                          addressed[f].group_addresses[i].address = UnexpectedDataError
    IN  [raised |-> IF failed THEN UnexpectedDataError ELSE None,
         functions |-> IF failed THEN <<>> ELSE addressed]

\* ProjectLoader.load, as far as group addresses, devices and functions go.
ProjectLoader_load(project_xml) ==
    LET group_address_list ==
            load_group_addresses(project_xml.GroupAddresses, project_xml.GroupAddressStyle)
        resolved == resolve_functions(load_functions(project_xml.Functions),
                                      group_address_list)
    IN  [raised |-> resolved.raised,
         group_addresses |-> group_address_list,
         devices |-> load_devices(project_xml.Devices),
         functions |-> resolved.functions]

(***************************************************************************)
(* XMLParser._load behind ProjectLoader.load: the application program of   *)
(* each device is chosen, loaded and merged into the device.               *)
(***************************************************************************)
ETS_4_2_SCHEMA_VERSION == 11

\* KNXProjContents.is_ets4_project
is_ets4_project(schema_version) == schema_version <= ETS_4_2_SCHEMA_VERSION

\* ComObjectInstanceRef.resolve_com_object_ref_id
resolve_com_object_ref_id(self, application_program_ref, is_ets4) ==
    IF is_ets4 /\ startswith(self.ref_id, application_program_ref)
    THEN [self EXCEPT !.com_object_ref_id = self.ref_id]
    ELSE [self EXCEPT
            !.application_program_id_prefix = application_program_ref \o Underscore,
            !.com_object_ref_id =
                application_program_ref \o Underscore
                    \o strip_module_instance(self.ref_id, <<"O">>)]

\* ModuleInstance.complete_arguments_ref_id
complete_arguments_ref_id(module_instance, application_program_ref) ==
    [module_instance EXCEPT !.arguments =
        [a \in 1..Len(module_instance.arguments) |->
            LET arg == module_instance.arguments[a] IN
            [arg EXCEPT !.ref_id =
                IF startswith(arg.ref_id, SM)
                THEN application_program_ref \o Underscore
                        \o module_instance.module_def_id \o Underscore \o arg.ref_id
                ELSE application_program_ref \o Underscore \o arg.ref_id]]]

\* The body of the loop over self.devices that chooses the application
\* program: a device whose product or hardware program is in no catalog is
\* left as it is.
choose_application_program(device, hardware, is_ets4) ==
    IF device.product_ref \notin hardware.products THEN device
    ELSE IF device.hardware_program_ref \notin DictKeys(hardware.programs) THEN device
    ELSE LET application_program_ref ==
                 DictGet(hardware.programs, device.hardware_program_ref)
         IN  [device EXCEPT
                !.application_program_ref = application_program_ref,
                !.com_object_instance_refs =
                    [i \in 1..Len(device.com_object_instance_refs) |->
                        resolve_com_object_ref_id(device.com_object_instance_refs[i],
                                                  application_program_ref, is_ets4)],
                !.module_instances =
                    [i \in 1..Len(device.module_instances) |->
                        complete_arguments_ref_id(device.module_instances[i],
                                                  application_program_ref)]]

\* DeviceInstance.application_program_xml
application_program_xml(device) ==
    split_once(device.product_ref, Underscore)[1] \o <<"/">>
        \o device.application_program_ref \o <<".", "x", "m", "l">>

\* ApplicationProgramLoader.load: every ComObject, Channel and Allocator of
\* the file is kept, a ComObjectRef only when an instance ref of the devices
\* names it.
ApplicationProgramLoader_load(application_xml, devs) ==
    LET used == UNION {{devs[d].com_object_instance_refs[i].com_object_ref_id :
                          i \in 1..Len(devs[d].com_object_instance_refs)} :
                       d \in 1..Len(devs)}
        used_arguments ==
            UNION {UNION {{devs[d].module_instances[i].arguments[a].ref_id :
                              a \in 1..Len(devs[d].module_instances[i].arguments)} :
                          i \in 1..Len(devs[d].module_instances)} :
                   d \in 1..Len(devs)}
    IN  [com_objects |-> application_xml.ComObjects,
         com_object_refs |-> SelectSeq(application_xml.ComObjectRefs,
                                LAMBDA item : item.key \in used),
         allocators |-> application_xml.Allocators,
         module_def_arguments |-> SelectSeq(application_xml.Arguments,
                                    LAMBDA item : item.key \in used_arguments),
         numeric_args |-> SelectSeq(application_xml.NumericArgs,
                                LAMBDA item : item.key \in used_arguments),
         channels |-> application_xml.Channels]

\* util.text_parameter_insert_module_instance: re.search of "_(U?P-.*)"
\* finds the first "_P-" or "_UP-".
text_parameter_insert_module_instance(instance_ref, instance_next_id, text_parameter_ref_id) ==
    LET module_ref == get_module_instance_part(instance_ref, instance_next_id)
        blocks == {p \in 1..Len(text_parameter_ref_id) :
                      \/ At(text_parameter_ref_id, p, <<"_", "P", "-">>)
                      \/ At(text_parameter_ref_id, p, <<"_", "U", "P", "-">>)}
    IN  IF find(text_parameter_ref_id, <<"_", "M", "D", "-">>) # 0 /\ module_ref # <<>>
        THEN IF blocks = {}
             THEN [raised |-> UnexpectedDataError, value |-> text_parameter_ref_id]
             ELSE [raised |-> None,
                   value |-> split_once(text_parameter_ref_id, <<"_", "M", "D", "-">>)[1]
                             \o Underscore \o module_ref \o Underscore
                             \o Slice(text_parameter_ref_id, Min(blocks) + 1,
                                      Len(text_parameter_ref_id))]
        ELSE [raised |-> None, value |-> text_parameter_ref_id]

\* ComObjectRef.com_object_ref_text_with_paramter
com_object_ref_text_with_paramter(self, com_object_instance_ref_id, instance_parameters) ==
    IF Truthy(self.text) /\ Truthy(self.text_parameter_ref_id)
    THEN With(text_parameter_insert_module_instance(com_object_instance_ref_id, <<"O">>,
                                                    self.text_parameter_ref_id),
              LAMBDA parameter_instance_ref :
         IF parameter_instance_ref.raised # None
         THEN [raised |-> parameter_instance_ref.raised, value |-> None]
         ELSE [raised |-> None,
               value |-> text_parameter_template_replace(self.text,
                    IF parameter_instance_ref.value \in DictKeys(instance_parameters)
                    THEN Some(DictGet(instance_parameters, parameter_instance_ref.value))
                    ELSE Nothing)])
    ELSE [raised |-> None, value |-> None]

\* isinstance(com_object, ComObjectRef): only a ComObjectRef has the slot
\* text_parameter_ref_id, only a ComObject has a number.
isinstance_ComObjectRef(com_object) == "text_parameter_ref_id" \in DOMAIN com_object

\* A plausible slip: the value of the parent object replaces the own one.
inherit_Overwrites(own, missing, parent) == parent

\* if <own is missing>: own = parent
inherit(own, missing, parent) == IF own = missing THEN parent ELSE own

\* ComObjectInstanceRef._merge_from_parent_object
merge_from_parent_object(self, com_object, parameters) ==
    With(IF self.text = None /\ isinstance_ComObjectRef(com_object)
         THEN com_object_ref_text_with_paramter(com_object, self.ref_id, parameters)
         ELSE [raised |-> None, value |-> None],
         LAMBDA text_with_parameter :
    IF text_with_parameter.raised # None
    THEN [raised |-> text_with_parameter.raised, self |-> self]
    ELSE [raised |-> None,
          self |-> [self EXCEPT
            !.name = inherit(self.name, None, com_object.name),
            !.text = inherit(self.text, None,
                        IF Truthy(text_with_parameter.value)
                        THEN text_with_parameter.value
                        ELSE com_object.text),
            !.function_text = inherit(self.function_text, None, com_object.function_text),
            !.object_size = inherit(self.object_size, None, com_object.object_size),
            !.read_flag = inherit(self.read_flag, Nothing, com_object.read_flag),
            !.write_flag = inherit(self.write_flag, Nothing, com_object.write_flag),
            !.communication_flag =
                inherit(self.communication_flag, Nothing, com_object.communication_flag),
            !.transmit_flag =
                inherit(self.transmit_flag, Nothing, com_object.transmit_flag),
            !.update_flag = inherit(self.update_flag, Nothing, com_object.update_flag),
            !.read_on_init_flag =
                inherit(self.read_on_init_flag, Nothing, com_object.read_on_init_flag),
            !.datapoint_types =
                inherit(self.datapoint_types, <<>>, com_object.datapoint_types),
            !.number = IF isinstance_ComObjectRef(com_object) THEN self.number
                       ELSE Some(com_object.number),
            !.base_number_argument_ref =
                IF isinstance_ComObjectRef(com_object)
                THEN self.base_number_argument_ref
                ELSE com_object.base_number_argument_ref]])

\* ComObjectInstanceRef.merge_application_program_info: the instance ref is
\* merged with its ComObjectRef, then with the ComObject of that; a missing
\* dictionary key raises KeyError.
merge_com_object(self, application, parameters) ==
    IF self.com_object_ref_id = None THEN [raised |-> None, self |-> self]
    ELSE IF self.com_object_ref_id \notin DictKeys(application.com_object_refs)
    THEN [raised |-> KeyError, self |-> self]
    ELSE
    With(DictGet(application.com_object_refs, self.com_object_ref_id),
         LAMBDA com_object_ref :
    With(merge_from_parent_object(self, com_object_ref, parameters), LAMBDA merged :
    IF merged.raised # None THEN merged
    ELSE IF com_object_ref.ref_id \notin DictKeys(application.com_objects)
    THEN [raised |-> KeyError, self |-> merged.self]
    ELSE merge_from_parent_object(merged.self,
            DictGet(application.com_objects, com_object_ref.ref_id), parameters)))

\* ComObjectInstanceRef.apply_module_base_number_argument
apply_module_base_number_argument(self, module_instances, application) ==
    IF base_number_not_applicable(self) THEN [raised |-> None, self |-> self]
    ELSE With(find_module_instance(self, module_instances), LAMBDA found :
         IF found = Nothing THEN [raised |-> UnexpectedDataError, self |-> self]
         ELSE With(parse_base_number_argument(self, found[1],
                        self.base_number_argument_ref, module_instances, application),
                   LAMBDA base_number :
              IF base_number.raised # None
              THEN [raised |-> base_number.raised, self |-> self]
              ELSE [raised |-> None,
                    self |-> apply_base_number(self, found[1], base_number.value)]))

\* The loop over self.com_object_instance_refs of
\* DeviceInstance.merge_application_program_info; the first exception ends it.
RECURSIVE merge_com_objects(_, _, _, _, _)
merge_com_objects(refs, done, module_instances, application, parameters) ==
    IF refs = <<>> THEN [raised |-> None, refs |-> done]
    ELSE With(merge_com_object(Head(refs), application, parameters), LAMBDA merged :
         IF merged.raised # None THEN [raised |-> merged.raised, refs |-> done]
         ELSE With(apply_module_base_number_argument(merged.self, module_instances,
                                                     application),
                   LAMBDA applied :
              IF applied.raised # None THEN [raised |-> applied.raised, refs |-> done]
              ELSE merge_com_objects(Tail(refs), Append(done, applied.self),
                                     module_instances, application, parameters)))

\* str.replace
RECURSIVE replace(_, _, _)
replace(s, old, new) ==
    IF Len(s) < Len(old) THEN s
    ELSE IF startswith(s, old)
    THEN new \o replace(Slice(s, Len(old) + 1, Len(s)), old, new)
    ELSE <<Head(s)>> \o replace(Tail(s), old, new)

\* ChannelNode.resolve_channel_name for an application channel without
\* TextParameterRefId: a channel node without text takes the text, else the
\* name, of the application program's channel; a missing key raises KeyError.
resolve_channel_name(self, device_instance, application) ==
    LET key == device_instance.application_program_ref \o Underscore
                   \o strip_module_instance(self.ref_id, <<"C", "H">>)
    IN  IF Truthy(self.name) THEN [raised |-> None, self |-> self]
        ELSE IF key \notin DictKeys(application.channels)
        THEN [raised |-> KeyError, self |-> self]
        ELSE LET application_channel == DictGet(application.channels, key)
             IN  [raised |-> None,
                  self |-> [self EXCEPT !.name =
                      IF Truthy(application_channel.text) THEN application_channel.text
                      ELSE application_channel.name]]

\* The loop over the module instance's arguments of
\* resolve_channel_module_placeholders.
RECURSIVE replace_placeholders(_, _)
replace_placeholders(name, arguments) ==
    IF arguments = <<>> THEN name
    ELSE replace_placeholders(
            replace(name, <<"{", "{">> \o Head(arguments).name \o <<"}", "}">>,
                    Head(arguments).value),
            Tail(arguments))

\* ChannelNode.resolve_channel_module_placeholders
resolve_channel_module_placeholders(self, device_instance) ==
    LET module_instance_ref == split_once(self.ref_id, <<"_", "C", "H">>)[1]
        found == SelectSeq(device_instance.module_instances,
                    LAMBDA mi : mi.identifier = module_instance_ref)
    IN  IF ~(startswith(self.ref_id, MDPrefix) /\ find(self.name, <<"{", "{">>) # 0)
        THEN [raised |-> None, self |-> self]
        ELSE IF found = <<>> THEN [raised |-> UnexpectedDataError, self |-> self]
        ELSE [raised |-> None,
              self |-> [self EXCEPT !.name =
                            replace_placeholders(self.name, found[1].arguments)]]

\* The loop over self.channels of merge_application_program_info.
RECURSIVE merge_channels(_, _, _, _)
merge_channels(channels, done, device_instance, application) ==
    IF channels = <<>> THEN [raised |-> None, channels |-> done]
    ELSE With(resolve_channel_name(Head(channels), device_instance, application),
              LAMBDA named :
         IF named.raised # None THEN [raised |-> named.raised, channels |-> done]
         ELSE With(resolve_channel_module_placeholders(named.self, device_instance),
                   LAMBDA filled :
              IF filled.raised # None THEN [raised |-> filled.raised, channels |-> done]
              ELSE merge_channels(Tail(channels), Append(done, filled.self),
                                  device_instance, application)))

\* The loop over module_instance_arguments(): name and allocates are those
\* of the application program, the defaults where it has no such Argument.
merge_arguments(module_instances, application) ==
    [i \in 1..Len(module_instances) |->
        [module_instances[i] EXCEPT !.arguments =
            [a \in 1..Len(module_instances[i].arguments) |->
                LET arg == module_instances[i].arguments[a]
                    known == arg.ref_id \in DictKeys(application.module_def_arguments)
                    info == DictGet(application.module_def_arguments, arg.ref_id)
                IN  [arg EXCEPT
                        !.name = IF known THEN info.name ELSE <<>>,
                        !.allocates = IF known THEN info.allocates ELSE Nothing]]]]

\* DeviceInstance.merge_application_program_info: the device afterwards, or
\* the exception that ended it.
merge_application_program_info(self, application) ==
    With([self EXCEPT !.module_instances =
            merge_arguments(self.module_instances, application)],
         LAMBDA with_arguments :
    With(merge_com_objects(self.com_object_instance_refs, <<>>,
                           with_arguments.module_instances, application,
                           self.parameter_instance_refs),
         LAMBDA com_objects :
    IF com_objects.raised # None
    THEN [raised |-> com_objects.raised, device |-> self]
    ELSE With([with_arguments EXCEPT !.com_object_instance_refs = com_objects.refs],
              LAMBDA with_com_objects :
         With(merge_channels(self.channels, <<>>, with_com_objects, application),
              LAMBDA merged_channels :
         IF merged_channels.raised # None
         THEN [raised |-> merged_channels.raised, device |-> self]
         ELSE [raised |-> None,
               device |-> [with_com_objects EXCEPT
                              !.channels = merged_channels.channels]]))))

\* The last loop of _load: a device without application program is left as
\* it is, the others are merged with their application program, which is
\* loaded from its file for all the devices that use it.
RECURSIVE merge_devices(_, _, _, _)
merge_devices(todo_devices, done, all_devices, application_files) ==
    IF todo_devices = <<>> THEN [raised |-> None, devices |-> done]
    ELSE With(Head(todo_devices), LAMBDA device :
         IF device.application_program_ref = None
         THEN merge_devices(Tail(todo_devices), Append(done, device),
                            all_devices, application_files)
         ELSE With(application_program_xml(device), LAMBDA file :
              With(ApplicationProgramLoader_load(
                        DictGet(application_files, file),
                        SelectSeq(all_devices, LAMBDA d :
                            /\ d.application_program_ref # None
                            /\ application_program_xml(d) = file)),
                   LAMBDA application :
              With(merge_application_program_info(device, application), LAMBDA merged :
              IF merged.raised # None
              THEN [raised |-> merged.raised, devices |-> done]
              ELSE merge_devices(Tail(todo_devices), Append(done, merged.device),
                                 all_devices, application_files)))))

FileNotFoundError == <<"FileNotFoundError">>

\* XMLParser._load behind ProjectLoader.load: the devices with their
\* application programs merged, or the exception that ended the loading.
load_application_programs(device_list, project_xml) ==
    With([i \in 1..Len(device_list) |->
             choose_application_program(device_list[i], project_xml.Hardware,
                   is_ets4_project(project_xml.SchemaVersion))],
         LAMBDA chosen :
    IF \E i \in 1..Len(chosen) :
          /\ chosen[i].application_program_ref # None
          /\ application_program_xml(chosen[i]) \notin DictKeys(project_xml.Applications)
    THEN [raised |-> FileNotFoundError, devices |-> <<>>]
    ELSE merge_devices(chosen, <<>>, chosen, project_xml.Applications))

(***************************************************************************)
(* XMLParser._sort                                                         *)
(***************************************************************************)
sort_group_addresses(gas) ==
    Items(SortPairs([i \in 1..Len(gas) |-> <<<<gas[i].raw_address>>, gas[i]>>]))

sort_devices(devs) ==
    Items(SortPairs([i \in 1..Len(devs) |->
        <<<<devs[i].area_address, devs[i].line_address, devs[i].address>>, devs[i]>>]))

\* Python's < on strings of digits: by the first differing character, a
\* proper prefix being smaller.
StrLess(a, b) ==
    \/ \E i \in 1..Min({Len(a), Len(b)}) :
          /\ DigitValue(a[i]) < DigitValue(b[i])
          /\ \A j \in 1..(i - 1) : a[j] = b[j]
    \/ /\ Len(a) < Len(b)
       /\ \A j \in 1..Len(a) : a[j] = b[j]

\* Python's < on the keys tuple(ia.split(".")) of recursive_sort_spaces:
\* tuples of strings, compared part by part as strings.
SplitKeyLess(a, b) ==
    \/ \E i \in 1..Min({Len(a), Len(b)}) :
          /\ StrLess(a[i], b[i])
          /\ \A j \in 1..(i - 1) : a[j] = b[j]
    \/ /\ Len(a) < Len(b)
       /\ \A j \in 1..Len(a) : a[j] = b[j]

\* _space.devices.sort(key=lambda ia: tuple(ia.split("."))): the stable
\* sort puts an address behind every address whose key is not greater.
RECURSIVE sort_space_devices(_)
sort_space_devices(space_devices) ==
    IF space_devices = <<>> THEN <<>>
    ELSE LET sorted == sort_space_devices(Slice(space_devices, 1, Len(space_devices) - 1))
             ia == space_devices[Len(space_devices)]
             before == {i \in 1..Len(sorted) :
                          SplitKeyLess(SplitOn(ia, "."), SplitOn(sorted[i], "."))}
             place == IF before = {} THEN Len(sorted) + 1 ELSE Min(before)
         IN  Slice(sorted, 1, place - 1) \o <<ia>> \o Slice(sorted, place, Len(sorted))

\* recursive_sort_spaces of _sort
RECURSIVE recursive_sort_spaces(_)
recursive_sort_spaces(space_list) ==
    [i \in 1..Len(space_list) |->
        [space_list[i] EXCEPT
            !.devices = sort_space_devices(space_list[i].devices),
            !.spaces = recursive_sort_spaces(space_list[i].spaces)]]

(***************************************************************************)
(* XMLParser._transform                                                    *)
(***************************************************************************)
\* {ga.identifier: ga.address for ga in self.group_addresses}
ga_id_to_address(gas) ==
    LET Fill[i \in 0..Len(gas)] ==
            IF i = 0 THEN <<>>
            ELSE DictSet(Fill[i - 1], gas[i].identifier, gas[i].address)
    IN  Fill[Len(gas)]

\* The addresses of the links that name a group address of the project:
\* _ga_id_to_address.get(link) is kept when it is a non-empty string.
RECURSIVE valid_links(_, _)
valid_links(links, id_to_address) ==
    IF links = <<>> THEN <<>>
    ELSE LET link == Head(links)
             found == link \in DictKeys(id_to_address)
                      /\ Truthy(DictGet(id_to_address, link))
         IN  (IF found THEN <<DictGet(id_to_address, link)>> ELSE <<>>)
             \o valid_links(Tail(links), id_to_address)

\* A plausible slip: the check for orphaned instance refs left out.
skipped_AcceptsOrphans(com_object, group_address_links) == FALSE

\* The two  continue  statements of the loop over the instance refs.
skipped(com_object, group_address_links) ==
    com_object.links = <<>> \/ group_address_links = <<>>

\* The key "<individual address>/<ref id>" of a communication object, kept
\* as the pair of its parts (an individual address holds no "/").
com_object_key(individual_address, ref_id) == <<individual_address, ref_id>>

\* The loop over device.com_object_instance_refs: the communication objects
\* after it and the keys appended to device_com_objects.
RECURSIVE transform_com_objects(_, _, _, _)
transform_com_objects(device, refs, id_to_address, acc) ==
    IF refs = <<>> THEN acc
    ELSE LET com_object == Head(refs)
             group_address_links == valid_links(com_object.links, id_to_address)
             key == com_object_key(device.individual_address, com_object.ref_id)
         IN  transform_com_objects(device, Tail(refs), id_to_address,
                IF skipped(com_object, group_address_links) THEN acc
                ELSE [communication_objects |->
                         DictSet(acc.communication_objects, key,
                                 [device_address |-> device.individual_address,
                                  group_address_links |-> group_address_links]),
                      device_com_objects |-> Append(acc.device_com_objects, key)])

\* The channels dict of a device: every group object instance of a channel
\* node is listed under the device's individual address.
transform_channels(device) ==
    LET Fill[i \in 0..Len(device.channels)] ==
            IF i = 0 THEN <<>>
            ELSE LET channel == device.channels[i]
                 IN  DictSet(Fill[i - 1], channel.ref_id,
                        [identifier |-> channel.ref_id,
                         communication_object_ids |->
                            [j \in 1..Len(channel.group_object_instances) |->
                                com_object_key(device.individual_address,
                                               channel.group_object_instances[j])]])
    IN  Fill[Len(device.channels)]

\* _recursive_convert_spaces: the dict of the spaces by name.
RECURSIVE recursive_convert_spaces(_)
recursive_convert_spaces(space_list) ==
    LET Fill[i \in 0..Len(space_list)] ==
            IF i = 0 THEN <<>>
            ELSE DictSet(Fill[i - 1], space_list[i].name,
                    [identifier |-> space_list[i].identifier,
                     name |-> space_list[i].name,
                     devices |-> space_list[i].devices,
                     spaces |-> recursive_convert_spaces(space_list[i].spaces),
                     functions |-> space_list[i].functions])
    IN  Fill[Len(space_list)]

\* The loop over self.devices.
RECURSIVE transform_devices(_, _, _)
transform_devices(devs, id_to_address, acc) ==
    IF devs = <<>> THEN acc
    ELSE LET device == Head(devs)
             done == transform_com_objects(device, device.com_object_instance_refs,
                        id_to_address,
                        [communication_objects |-> acc.communication_objects,
                         device_com_objects |-> <<>>])
         IN  transform_devices(Tail(devs), id_to_address,
                [communication_objects |-> done.communication_objects,
                 devices_dict |->
                    DictSet(acc.devices_dict, device.individual_address,
                        [individual_address |-> device.individual_address,
                         communication_object_ids |-> done.device_com_objects,
                         channels |-> transform_channels(device)])])

\* A plausible slip: the membership test on group_address_links left out.
linked_com_object_ids_Unfiltered(group_address, communication_objects) ==
    [i \in 1..Len(communication_objects) |-> communication_objects[i].key]

\* communication_object_ids of a group address: the keys of the
\* communication objects that list its address among their links.
linked_com_object_ids(group_address, communication_objects) ==
    LET linked == SelectSeq(communication_objects,
            LAMBDA item : \E i \in 1..Len(item.value.group_address_links) :
                item.value.group_address_links[i] = group_address.address)
    IN  [i \in 1..Len(linked) |-> linked[i].key]

transform_group_addresses(gas, communication_objects) ==
    LET Fill[i \in 0..Len(gas)] ==
            IF i = 0 THEN <<>>
            ELSE DictSet(Fill[i - 1], gas[i].address,
                    [identifier |-> gas[i].identifier,
                     raw_address |-> gas[i].raw_address,
                     address |-> gas[i].address,
                     communication_object_ids |->
                        linked_com_object_ids(gas[i], communication_objects)])
    IN  Fill[Len(gas)]

\* _convert_functions: the references of a function, keyed by address.
convert_functions(function) ==
    LET refs == function.group_addresses
        Fill[i \in 0..Len(refs)] ==
            IF i = 0 THEN <<>>
            ELSE DictSet(Fill[i - 1], refs[i].address,
                    [address |-> refs[i].address, role |-> refs[i].role])
    IN  [identifier |-> function.identifier, group_addresses |-> Fill[Len(refs)]]

\* functions_dict: the converted functions, keyed by identifier.
transform_functions(funcs) ==
    LET Fill[i \in 0..Len(funcs)] ==
            IF i = 0 THEN <<>>
            ELSE DictSet(Fill[i - 1], funcs[i].identifier, convert_functions(funcs[i]))
    IN  Fill[Len(funcs)]

\* The KNXProject document, as far as communication objects, devices,
\* group addresses and functions go.
transform(gas, devs, funcs) ==
    LET done == transform_devices(devs, ga_id_to_address(gas),
                    [communication_objects |-> <<>>, devices_dict |-> <<>>])
    IN  [communication_objects |-> done.communication_objects,
         devices |-> done.devices_dict,
         group_addresses |-> transform_group_addresses(gas, done.communication_objects),
         functions |-> transform_functions(funcs)]

\* XMLParser.parse: _load, _sort and _transform in turn; the document, or
\* the exception that ended the loading.
parse(project_xml) ==
    With(ProjectLoader_load(project_xml), LAMBDA loaded :
    IF loaded.raised # None THEN [raised |-> loaded.raised, project |-> None]
    ELSE With(load_application_programs(loaded.devices, project_xml), LAMBDA merged :
         IF merged.raised # None THEN [raised |-> merged.raised, project |-> None]
         ELSE [raised |-> None,
               project |-> transform(sort_group_addresses(loaded.group_addresses),
                                     sort_devices(merged.devices),
                                     loaded.functions)]))

(***************************************************************************)
(* zip.extractor: the functions extract is built from.                     *)
(***************************************************************************)

ETS_6_SCHEMA_VERSION == 21

ProjectPrefix == <<"P", "-">>
SignatureSuffix == <<".", "s", "i", "g", "n", "a", "t", "u", "r", "e">>
ZipSuffix == <<".", "z", "i", "p">>
Slash == <<"/">>
Project0 == <<"0", ".", "x", "m", "l">>

\* _get_project_id: the first entry of the archive whose file name (the
\* path inside the archive) starts with "P-" and ends with ".signature".
get_project_id(infolist) ==
    LET hits == {i \in 1..Len(infolist) :
                    /\ startswith(infolist[i], ProjectPrefix)
                    /\ endswith(infolist[i], SignatureSuffix)}
    IN  IF hits = {}
        THEN [raised |-> ProjectNotFoundException, value |-> <<>>]
        ELSE [raised |-> None,
              value |-> removesuffix(infolist[Min(hits)], SignatureSuffix)]

\* _get_xml_namespace over the lines of knx_master.xml; a line is given by
\* whether it decodes and by the namespace its xmlns attribute holds, if
\* the pattern matches it. Only the first two lines are looked at, and only
\* the first may fail to match.
get_xml_namespace(master) ==
    LET Line(n) ==
            IF ~master[n].decodable \/ (master[n].xmlns = Nothing /\ n = 2)
            THEN [raised |-> UnexpectedFileContent, value |-> <<>>]
            ELSE [raised |-> None, value |-> master[n].xmlns[1]]
    IN  IF Len(master) >= 1 /\ ~(master[1].decodable /\ master[1].xmlns = Nothing)
        THEN Line(1)
        ELSE IF Len(master) >= 2 THEN Line(2)
        ELSE [raised |-> UnexpectedFileContent, value |-> <<>>]

\* _get_schema_version: int() of the text behind the last "/".
get_schema_version(namespace) ==
    LET parts == SplitOn(namespace, "/")
        last == parts[Len(parts)]
    IN  IF IsDecimal(last)
        THEN [raised |-> None, value |-> DecimalValue(last)]
        ELSE [raised |-> UnexpectedFileContent, value |-> 0]

\* The password handed to setpassword: the UTF-8 bytes before ETS 6, the
\* base64 of the PBKDF2 key from ETS 6 on (_generate_ets6_zip_password);
\* the derivations are kept apart by a tag.
zip_password(password, schema_version) ==
    IF schema_version < ETS_6_SCHEMA_VERSION
    THEN <<"utf-8", password>>
    ELSE <<"pbkdf2-sha256", password>>

\* A plausible slip: the archive is closed on a normal exit only.
ZipFile_exit_OnlyOnReturn(handle, exception) ==
    IF exception = None THEN ClosedHandle ELSE handle

\* The end of  with ZipFile(...) as zip_archive : the archive is closed,
\* whether the block returned or raised.
ZipFile_exit(handle, exception) == ClosedHandle

\* A plausible slip: the except clause left out.
exit_protected_Reraises(exception, stream) ==
    [raised |-> exception, project_archive_file |-> ClosedHandle]

\* A plausible slip: the stream is closed behind the yield, without finally.
exit_protected_NoFinally(exception, stream) ==
    [raised |-> IF exception = RuntimeError THEN InvalidPasswordException ELSE exception,
     project_archive_file |-> IF exception = None THEN ClosedHandle ELSE stream]

\* The except and finally clauses of _extract_protected_project_file, run
\* when the scope ends or ZipFile(project_archive_file) raises: a
\* RuntimeError becomes InvalidPasswordException, the stream is closed.
exit_protected(exception, stream) ==
    [raised |-> IF exception = RuntimeError THEN InvalidPasswordException ELSE exception,
     project_archive_file |-> ClosedHandle]

\* KNXProjContents.open_project_0 / ZipFile.open of the project archive:
\* the outcome of opening "<project_relative_path>0.xml".
open_project_0(knx_proj_contents, archive, password, outer, stream) ==
    IF ~knx_proj_contents.protected
    THEN IF outer # Opened THEN ValueError
         ELSE IF \E i \in 1..Len(archive.infolist) :
                    archive.infolist[i] = knx_proj_contents.project_relative_path \o Project0
              THEN None ELSE KeyError
    ELSE IF stream # Opened THEN ValueError
         ELSE IF zip_password(password, knx_proj_contents.schema_version) # archive.key
              THEN RuntimeError ELSE None

\* KNXProjContents.root.read(name) for a name the archive holds.
root_read(outer) == IF outer = Opened THEN None ELSE ValueError

(***************************************************************************)
(* Idle values of the state a specification does not use.                  *)
(***************************************************************************)
ParserIdle ==
    /\ xml = <<>>
    /\ group_addresses = <<>>
    /\ devices = <<>>
    /\ project = None
    /\ functions = <<>>
    /\ raised = None

ExtractIdle ==
    /\ zip_archive = Unopened
    /\ project_archive_file = Unopened
    /\ contents = Nothing
    /\ todo = <<>>

(***************************************************************************)
(* Specification SpecStrAddress: one group address is constructed          *)
(* (XMLGroupAddress.__init__) and formatted.                               *)
(***************************************************************************)
InitStrAddress ==
    /\ pc = "call"
    /\ args \in [raw_address : 0..MaxRaw, style : GroupAddressStyle]
    /\ result = NoResult
    /\ ParserIdle
    /\ ExtractIdle

CallStrAddress ==
    /\ pc = "call"
    /\ result' = str_address(args.raw_address, args.style)
    /\ pc' = "done"
    /\ UNCHANGED <<args, raised, parserVars, extractVars>>

NextStrAddress == CallStrAddress

SpecStrAddress == InitStrAddress /\ [][NextStrAddress]_vars

\* The reading of a formatted address that the claim describes.
Recovered(address, style) ==
    LET parts == SplitOn(address, "/") IN
    IF \E i \in 1..Len(parts) : ~IsDecimal(parts[i]) THEN -1
    ELSE IF style = FREE /\ Len(parts) = 1 THEN DecimalValue(parts[1])
    ELSE IF style = TWOLEVEL /\ Len(parts) = 2
              /\ DecimalValue(parts[1]) < 32 /\ DecimalValue(parts[2]) < 2048
         THEN DecimalValue(parts[1]) * 2048 + DecimalValue(parts[2])
    ELSE IF style = THREELEVEL /\ Len(parts) = 3
              /\ DecimalValue(parts[1]) < 32 /\ DecimalValue(parts[2]) < 8
              /\ DecimalValue(parts[3]) < 256
         THEN DecimalValue(parts[1]) * 2048 + DecimalValue(parts[2]) * 256
              + DecimalValue(parts[3])
    ELSE -1

\* The raw values that differ from r in exactly one of the 16 bits.
OneBitNeighbours(r) ==
    {IF (r \div (2 ^ b)) % 2 = 1 THEN r - 2 ^ b ELSE r + 2 ^ b : b \in 0..(RawBits - 1)}

\* C1: every raw value 0..65535 is recovered from its formatted address in
\* each style, and no raw value that differs from it in one bit gets the same
\* formatted address.
C1_RoundTrip ==
    pc = "done" /\ "raw_address" \in DOMAIN args =>
        /\ Recovered(result, args.style) = args.raw_address
        /\ \A o \in OneBitNeighbours(args.raw_address) :
              str_address(o, args.style) # result

\* 0x4806 in three-level style is "9/0/6".
C1_Witness ==
    /\ pc = "done"
    /\ "raw_address" \in DOMAIN args
    /\ args.raw_address = 18438
    /\ args.style = THREELEVEL
    /\ result = <<"9", "/", "0", "/", "6">>
(***************************************************************************)
(* Specification SpecReference: one call of a helper of the reference      *)
(* grammar on an identifier built from underscore-separated segments.      *)
(***************************************************************************)
\* The segments identifiers are built from: kind "-" token ("-" token)*.
Segments ==
    {<<"M", "D", "-", "1">>,
     <<"M", "D", "-", "1", "-", "2">>,
     <<"M", "-", "1">>,
     <<"M", "I", "-", "1">>,
     <<"S", "M", "-", "1">>,
     <<"O", "-", "3">>,
     <<"O", "-", "3", "-", "1">>,
     <<"R", "-", "2">>,
     <<"C", "H", "-", "4">>}

\* The kind tokens searched for.
SearchIds == {<<"O">>, <<"C", "H">>, <<"M">>, <<"P">>}

\* At most this many segments in a generated identifier.
MaxSegments == 3

RECURSIVE IdsOfLength(_)
IdsOfLength(n) ==
    IF n = 1 THEN Segments
    ELSE {id \o Underscore \o seg : id \in IdsOfLength(n - 1), seg \in Segments}

\* The identifiers of test_util.py.
TestId_Submodule == <<"M", "D", "-", "4", "_", "M", "-", "1", "5", "_", "M", "I", "-", "1", "_", "S", "M", "-", "1", "_", "M", "-", "1", "_", "M", "I", "-", "1", "-", "1", "-", "2", "_", "S", "M", "-", "1", "_", "O", "-", "3", "-", "1", "_", "R", "-", "2">>
TestId_Channel == <<"M", "D", "-", "1", "_", "M", "-", "1", "_", "M", "I", "-", "1", "_", "C", "H", "-", "4">>
TestId_Parameter == <<"M", "-", "0", "0", "8", "3", "_", "A", "-", "0", "0", "9", "8", "-", "1", "2", "-", "4", "8", "9", "B", "_", "M", "D", "-", "1", "_", "M", "-", "1", "_", "M", "I", "-", "1", "_", "P", "-", "4", "3", "_", "R", "-", "8", "7">>
TestId_NoModule == <<"C", "H", "-", "S", "O", "M", "0", "3">>
TestIds == {TestId_Submodule, TestId_Channel, TestId_Parameter, TestId_NoModule}

Identifiers == TestIds \cup UNION {IdsOfLength(n) : n \in 1..MaxSegments}

StripFn == "strip_module_instance"
PartFn == "get_module_instance_part"

InitReference ==
    /\ pc = "call"
    /\ args \in [fn : {StripFn, PartFn}, text : Identifiers, search_id : SearchIds]
    /\ result = NoResult
    /\ ParserIdle
    /\ ExtractIdle

CallStripModuleInstance ==
    /\ pc = "call"
    /\ args.fn = StripFn
    /\ result' = strip_module_instance(args.text, args.search_id)
    /\ pc' = "done"
    /\ UNCHANGED <<args, raised, parserVars, extractVars>>

CallGetModuleInstancePart ==
    /\ pc = "call"
    /\ args.fn = PartFn
    /\ result' = get_module_instance_part(args.text, args.search_id)
    /\ pc' = "done"
    /\ UNCHANGED <<args, raised, parserVars, extractVars>>

NextReference == CallStripModuleInstance \/ CallGetModuleInstancePart

SpecReference == InitReference /\ [][NextReference]_vars

Stripped == pc = "done" /\ args.fn = StripFn
PartTaken == pc = "done" /\ args.fn = PartFn

\* The segments of an identifier and the kind of a segment.
SegmentsOf(id) == SplitOn(id, "_")
KindOf(seg) == SplitOn(seg, "-")[1]
HasKind(id, kind) ==
    \E i \in 1..Len(SegmentsOf(id)) : KindOf(SegmentsOf(id)[i]) = kind

C3_Expected(id, kind) ==
    LET segs == SegmentsOf(id)
        i == Min({j \in 1..Len(segs) : KindOf(segs[j]) = kind})
        md == IF i > 1 /\ KindOf(segs[1]) = <<"M", "D">> THEN <<segs[1]>> ELSE <<>>
        sm == IF i > 1 /\ KindOf(segs[i - 1]) = <<"S", "M">>
              THEN <<segs[i - 1]>> ELSE <<>>
    IN  Join(md \o sm \o SubSeq(segs, i, Len(segs)), Underscore)

\* C3: for an identifier with a segment of the kind, the result is the leading
\* MD segment (if any), the SM segment directly before the kind segment (if
\* any), the kind segment and everything after it.
C3_KeepsDefinitionAndRest ==
    Stripped /\ HasKind(args.text, args.search_id) =>
        result = C3_Expected(args.text, args.search_id)

\* What C4 says is returned: from the first "MD-" up to the first
\* "_<next_id>-", the empty string without an "MD-" before that place.
C4_Expected(ref, next_id) ==
    LET ends == {q \in 1..Len(ref) : At(ref, q, Underscore \o next_id \o Dash)}
        mds == {p \in 1..Len(ref) : At(ref, p, MD) /\ ends # {} /\ p + 3 <= Min(ends)}
    IN  IF mds = {} THEN <<>> ELSE Slice(ref, Min(mds), Min(ends) - 1)

\* C4: get_module_instance_part returns the text from the leading "MD-" up to
\* the first occurrence of "_<next_id>-", or the empty string.
C4_UpToFirstOccurrence ==
    PartTaken => result = C4_Expected(args.text, args.search_id)

(***************************************************************************)
(* Specification SpecTemplate: one call of text_parameter_template_replace *)
(* on a text assembled from placeholders and literal characters.           *)
(***************************************************************************)
\* The placeholders the function is documented to replace.
ZeroPlaceholders == {<<"{", "{", "0", "}", "}">>, <<"{", "{", "0", ":", "d", "}", "}">>, <<"{", "{", "0", ":", "}", "}">>}
\* Placeholders whose content is neither "0" nor starts with "0:".
OtherPlaceholders == {<<"{", "{", "1", "}", "}">>, <<"{", "{", "X", "Y", "}", "}">>, <<"{", "{", "0", "1", "}", "}">>, <<"{", "{", "0", "a", "}", "}">>}
LiteralChunks == {<<"a">>, <<"{">>, <<"}">>}
Chunks == ZeroPlaceholders \cup OtherPlaceholders \cup LiteralChunks

\* At most this many chunks in a text.
MaxChunks == 3

\* ParameterInstanceRef("id", value), or no parameter at all.
ParameterValues == {None, <<>>, <<"t", "e", "s", "t">>}
Parameters == {Nothing} \cup {Some(p) : p \in [ref_id : {"id"}, value : ParameterValues]}

ChunkLists == UNION {[1..n -> Chunks] : n \in 1..MaxChunks}

InitTemplate ==
    /\ pc = "call"
    /\ args \in [chunks : ChunkLists, parameter : Parameters]
    /\ result = NoResult
    /\ ParserIdle
    /\ ExtractIdle

CallTextParameterTemplateReplace ==
    /\ pc = "call"
    /\ result' = text_parameter_template_replace(Concat(args.chunks), args.parameter)
    /\ pc' = "done"
    /\ UNCHANGED <<args, raised, parserVars, extractVars>>

NextTemplate == CallTextParameterTemplateReplace

SpecTemplate == InitTemplate /\ [][NextTemplate]_vars

\* What C5 says is returned: only "{{0}}" and "{{0:default}}" are replaced.
C5_Value(parameter) ==
    IF parameter # Nothing /\ Truthy(parameter[1].value) THEN parameter[1].value ELSE None

RECURSIVE C5_Expected(_, _)
C5_Expected(text, value) ==
    LET Closed(p) == {e \in (p + 4)..Len(text) : At(text, e, Close)}
        IsZero(p) == At(text, p, Open0 \o Close)
        IsDefault(p) == At(text, p, Open0 \o Colon) /\ Closed(p) # {}
        starts == {p \in 1..Len(text) : IsZero(p) \/ IsDefault(p)}
    IN  IF starts = {} THEN text
        ELSE LET p == Min(starts)
                 e == IF IsZero(p) THEN p + 3 ELSE Min(Closed(p))
                 default == IF IsZero(p) THEN <<>> ELSE Slice(text, p + 4, e - 1)
             IN  Slice(text, 1, p - 1)
                 \o (IF value # None THEN value ELSE default)
                 \o C5_Expected(Slice(text, e + 2, Len(text)), value)

\* C5: every "{{0}}" and "{{0:default}}" is replaced, left to right, by the
\* value or else by the empty string / the default; the rest of the text is
\* unchanged.
C5_ReplacesZeroPlaceholders ==
    pc = "done" =>
        result = C5_Expected(Concat(args.chunks), C5_Value(args.parameter))

Contains(text, part) == \E p \in 1..Len(text) : At(text, p, part)

\* C6: a placeholder whose content is neither "0" nor starts with "0:" stands
\* unchanged in the output, whatever the parameter value.
C6_OtherPlaceholdersLiteral ==
    pc = "done" =>
        \A i \in 1..Len(args.chunks) :
            args.chunks[i] \in OtherPlaceholders => Contains(result, args.chunks[i])

(***************************************************************************)
(* Specification SpecDpt: one call of parse_dpt_types on a DatapointType   *)
(* attribute.                                                              *)
(***************************************************************************)
DptTokens ==
    {<<"D", "P", "T", "-", "1">>,
     <<"D", "P", "S", "T", "-", "1", "-", "1">>,
     <<"D", "P", "T", "-", "5">>,
     <<"D", "P", "S", "T", "-", "5">>,
     <<"W", "r", "o", "n", "g">>,
     <<"D", "P", "T", "-", "W", "r", "o", "n", "g">>,
     <<"D", "P", "S", "T", "-", "1", "-", "W", "r", "o", "n", "g">>,
     <<"D", "P", "T", "-", "1", "-", "2">>,
     <<"D", "P", "T", "-">>,
     <<"D", "P", "S", "T", "-", "6", "-", "1", "0">>}

\* At most this many tokens in an attribute.
MaxTokens == 3

Separators == {<<" ">>, <<" ", " ">>}

RECURSIVE DptStrings(_)
DptStrings(n) ==
    IF n = 1 THEN DptTokens \cup {<<" ">> \o t \o <<" ">> : t \in DptTokens}
    ELSE {s \o sep \o t : s \in DptStrings(n - 1), sep \in Separators, t \in DptTokens}

DptAttributes ==
    {None, <<>>, <<" ">>, <<" ", " ">>} \cup UNION {DptStrings(n) : n \in 1..MaxTokens}

InitDpt ==
    /\ pc = "call"
    /\ args \in [dpt_string : DptAttributes]
    /\ result = NoResult
    /\ ParserIdle
    /\ ExtractIdle

CallParseDptTypes ==
    /\ pc = "call"
    /\ result' = parse_dpt_types(args.dpt_string)
    /\ pc' = "done"
    /\ UNCHANGED <<args, raised, parserVars, extractVars>>

NextDpt == CallParseDptTypes

SpecDpt == InitDpt /\ [][NextDpt]_vars

\* What C7 says a token contributes: "DPT-<n>" and "DPST-<n>-<m>" exactly.
C7_OfToken(token) ==
    LET parts == SplitOn(token, "-") IN
    IF Len(parts) = 2 /\ parts[1] = MAIN_DPT /\ IsDecimal(parts[2])
    THEN <<DPTType(DecimalValue(parts[2]), Nothing)>>
    ELSE IF Len(parts) = 3 /\ parts[1] = MAIN_AND_SUB_DPT
              /\ IsDecimal(parts[2]) /\ IsDecimal(parts[3])
    THEN <<DPTType(DecimalValue(parts[2]), Some(DecimalValue(parts[3])))>>
    ELSE <<>>

RECURSIVE C7_OfTokens(_)
C7_OfTokens(tokens) ==
    IF tokens = <<>> THEN <<>>
    ELSE C7_OfToken(Head(tokens)) \o C7_OfTokens(Tail(tokens))

C7_Expected(dpt_string) ==
    IF dpt_string = None THEN <<>>
    ELSE C7_OfTokens(fromkeys(split(dpt_string)))

\* C7: the result lists, in first-seen order and without duplicate tokens,
\* one entry per token "DPT-<n>" or "DPST-<n>-<m>"; a token of any other form
\* contributes nothing; the empty string, whitespace and None give the
\* empty list.
C7_OnlyWellFormedTokens ==
    pc = "done" => result = C7_Expected(args.dpt_string)

(***************************************************************************)
(* Specification Spec: XMLParser.parse on a project: _load, _sort and      *)
(* _transform, one after the other.                                        *)
(***************************************************************************)
UtilIdle ==
    /\ args = <<>>
    /\ result = NoResult

\* The GroupAddress elements of the project, in document order.
GA1 == [Id |-> <<"P-1", "GA-1">>, Address |-> 2049]
GA2 == [Id |-> <<"P-1", "GA-2">>, Address |-> 0]
GroupAddressElements == {<<>>, <<GA1>>, <<GA1, GA2>>}

\* The Links of a ComObjectInstanceRef: none, an empty attribute, links to
\* group addresses of the project and to "GA-9", which the project lacks.
LinkLists ==
    {<<>>, <<"">>, <<"GA-1">>, <<"GA-9">>, <<"GA-2", "GA-1">>, <<"GA-9", "GA-2">>}

RefIds == <<<<"O", "-", "1", "_", "R", "-", "1">>, <<"O", "-", "2", "_", "R", "-", "2">>, <<"O", "-", "3", "_", "R", "-", "3">>>>

\* At most this many ComObjectInstanceRef elements in the first device.
MaxRefs == 2

ComObjectInstanceRefElements(n) ==
    {[i \in 1..m |-> [RefId |-> RefIds[i], Links |-> ls[i]]] :
        m \in 0..n, ls \in [1..n -> LinkLists]}

\* The Channel nodes of a device: none, one without GroupObjectInstances,
\* one that names the first or both instance refs.
ChannelElements ==
    {<<>>} \cup
    {<<[RefId |-> <<"C", "H", "-", "1">>, Text |-> <<>>, GroupObjectInstances |-> gos]>> :
        gos \in {<<>>, <<RefIds[1]>>, <<RefIds[2], RefIds[1]>>}}

\* The product and the hardware program of the catalog, and two that are in
\* no catalog.
Product1 == <<"M", "-", "1", "_", "H", "-", "1", "_", "P", "-", "1">>
Product9 == <<"M", "-", "1", "_", "H", "-", "1", "_", "P", "-", "9">>
HardwareProgram1 == <<"M", "-", "1", "_", "H", "-", "1", "_", "H", "P", "-", "1">>
HardwareProgram9 == <<"M", "-", "1", "_", "H", "-", "1", "_", "H", "P", "-", "9">>

\* The DeviceInstance elements: device 1.1.x with any instance refs and
\* channels, optionally behind device 0.1.1, which comes later in the
\* document although its address is smaller.
FirstDevices ==
    [Area : {1}, Line : {1}, Address : {Nothing, Some(2)},
     ProductRefId : {Product1}, Hardware2ProgramRefId : {HardwareProgram1},
     ModuleInstances : {<<>>},
     ComObjectInstanceRefs : ComObjectInstanceRefElements(MaxRefs),
     Channels : ChannelElements]

SecondDevice ==
    [Area |-> 0, Line |-> 1, Address |-> Some(1),
     ProductRefId |-> Product1, Hardware2ProgramRefId |-> HardwareProgram1,
     ModuleInstances |-> <<>>,
     ComObjectInstanceRefs |-> <<[RefId |-> RefIds[1], Links |-> <<"GA-1">>]>>,
     Channels |-> <<>>]

DeviceElements ==
    {<<d>> : d \in FirstDevices} \cup {<<d, SecondDevice>> : d \in FirstDevices}

\* The Function nodes of the locations: each refers to group addresses of
\* the project or to "GA-9", which the project lacks.
GroupAddressRefLists ==
    {<<>>, <<"GA-1">>, <<"GA-9">>, <<"GA-2", "GA-1">>}

FunctionIds == <<"F-1", "F-2", "F-3">>

\* At most this many functions in a project.
MaxFunctions == 2

FunctionElements ==
    {[i \in 1..m |->
        [Id |-> <<"P-1", FunctionIds[i]>>,
         GroupAddressRefs |->
            [j \in 1..Len(refs[i]) |->
                [RefId |-> <<"P-1", refs[i][j]>>, Role |-> "SwitchOnOff"]]]] :
        m \in 0..MaxFunctions, refs \in [1..MaxFunctions -> GroupAddressRefLists]}

\* The hardware catalogs of the project: none, or one with the product, the
\* hardware program and its application program.
ApplicationProgramRef == <<"M", "-", "1", "_", "A", "-", "1">>
NoCatalog == [products |-> {}, programs |-> <<>>]
Catalog ==
    [products |-> {Product1},
     programs |-> <<[key |-> HardwareProgram1, value |-> ApplicationProgramRef]>>]

\* The application program file: its ComObject O-1, a ComObjectRef
\* O-1_R-1 that is absent, refers to O-1 or refers to a ComObject the file
\* lacks, and its channel CH-1 or none.
ComObject1 ==
    [key |-> <<"M", "-", "1", "_", "A", "-", "1", "_", "O", "-", "1">>,
     value |-> [number |-> 5, name |-> <<"S", "w", "i", "t", "c", "h">>, text |-> <<"S", "w", "i", "t", "c", "h">>,
                function_text |-> <<"O", "n", "/", "O", "f", "f">>, object_size |-> <<"1", " ", "B", "i", "t">>,
                read_flag |-> Some(FALSE), write_flag |-> Some(TRUE),
                communication_flag |-> Some(TRUE), transmit_flag |-> Some(FALSE),
                update_flag |-> Some(FALSE), read_on_init_flag |-> Some(FALSE),
                datapoint_types |-> <<DPTType(1, Nothing)>>,
                base_number_argument_ref |-> None]]
ComObjectRef1(ref_id) ==
    [key |-> <<"M", "-", "1", "_", "A", "-", "1", "_", "O", "-", "1", "_", "R", "-", "1">>, 
     value |-> [ref_id |-> ref_id, name |-> None, text |-> None,
                function_text |-> None, object_size |-> None,
                read_flag |-> Nothing, write_flag |-> Nothing,
                communication_flag |-> Nothing, transmit_flag |-> Some(TRUE),
                update_flag |-> Nothing, read_on_init_flag |-> Nothing,
                datapoint_types |-> <<>>, text_parameter_ref_id |-> None]]
Channel1 ==
    [key |-> <<"M", "-", "1", "_", "A", "-", "1", "_", "C", "H", "-", "1">>, value |-> [text |-> <<"C", "h", "a", "n", "n", "e", "l">>, name |-> <<"C", "H">>]]

ApplicationFiles ==
    {<<[key |-> <<"M", "-", "1", "/", "M", "-", "1", "_", "A", "-", "1", ".", "x", "m", "l">>, value |-> application]>> :
        application \in
            [ComObjects : {<<ComObject1>>},
             ComObjectRefs : {<<>>, <<ComObjectRef1(<<"M", "-", "1", "_", "A", "-", "1", "_", "O", "-", "1">>)>>,
                              <<ComObjectRef1(<<"M", "-", "1", "_", "A", "-", "1", "_", "O", "-", "9">>)>>},
             Channels : {<<>>, <<Channel1>>},
             Allocators : {<<>>}, Arguments : {<<>>}, NumericArgs : {<<>>}]}

\* The devices of a project with a catalog: device 1.1.2, whose product and
\* hardware program are in the catalog or not, with instance refs in the
\* short form or, as ETS 4 writes them, with the application program id,
\* and with a channel node with or without text.
CatalogDevices ==
    [Area : {1}, Line : {1}, Address : {Some(2)},
     ProductRefId : {Product1, Product9},
     Hardware2ProgramRefId : {HardwareProgram1, HardwareProgram9},
     ModuleInstances : {<<>>},
     ComObjectInstanceRefs :
        {<<>>,
         <<[RefId |-> RefIds[1], Links |-> <<"GA-1">>]>>,
         <<[RefId |-> <<"M", "-", "1", "_", "A", "-", "1", "_", "O", "-", "1", "_", "R", "-", "1">>, Links |-> <<"GA-1">>]>>,
         <<[RefId |-> RefIds[1], Links |-> <<"GA-1">>],
           [RefId |-> RefIds[2], Links |-> <<"GA-9">>]>>},
     Channels :
        {<<>>} \cup
        {<<[RefId |-> <<"C", "H", "-", "1">>, Text |-> text, GroupObjectInstances |-> <<RefIds[1]>>]>> :
            text \in {<<>>, <<"C", "h">>}}]

\* The projects: any devices without functions and without catalog, any
\* functions beside the second device alone, and a device with a catalog
\* and an application program file.
ProjectXmls ==
    [GroupAddressStyle : {FREE, THREELEVEL},
     GroupAddresses : GroupAddressElements,
     Devices : DeviceElements,
     Functions : {<<>>},
     SchemaVersion : {20}, Hardware : {NoCatalog}, Applications : {<<>>}]
    \cup
    [GroupAddressStyle : {FREE, THREELEVEL},
     GroupAddresses : GroupAddressElements,
     Devices : {<<SecondDevice>>},
     Functions : FunctionElements,
     SchemaVersion : {20}, Hardware : {NoCatalog}, Applications : {<<>>}]
    \cup
    [GroupAddressStyle : {THREELEVEL},
     GroupAddresses : GroupAddressElements,
     Devices : {<<d>> : d \in CatalogDevices},
     Functions : {<<>>},
     SchemaVersion : {ETS_4_2_SCHEMA_VERSION, 20},
     Hardware : {Catalog}, Applications : ApplicationFiles]

Init ==
    /\ pc = "init"
    /\ xml \in ProjectXmls
    /\ group_addresses = <<>>
    /\ devices = <<>>
    /\ functions = <<>>
    /\ project = None
    /\ raised = None
    /\ UtilIdle
    /\ ExtractIdle

\* XMLParser._load up to the return of ProjectLoader.load; when the loader
\* raises, nothing is assigned and parse ends with the exception.
Load ==
    /\ pc = "init"
    /\ LET loaded == ProjectLoader_load(xml)
       IN  IF loaded.raised # None
           THEN /\ raised' = loaded.raised
                /\ pc' = "failed"
                /\ UNCHANGED <<group_addresses, devices, functions>>
           ELSE /\ group_addresses' = loaded.group_addresses
                /\ devices' = loaded.devices
                /\ functions' = loaded.functions
                /\ pc' = "loaded"
                /\ UNCHANGED raised
    /\ UNCHANGED <<args, result, xml, project, extractVars>>

\* XMLParser._load behind ProjectLoader.load; an exception of the merge
\* ends parse.
LoadApplicationPrograms ==
    /\ pc = "loaded"
    /\ \E merged \in {load_application_programs(devices, xml)} :
           IF merged.raised # None
           THEN /\ raised' = merged.raised
                /\ pc' = "failed"
                /\ UNCHANGED devices
           ELSE /\ devices' = merged.devices
                /\ pc' = "merged"
                /\ UNCHANGED raised
    /\ UNCHANGED <<args, result, xml, project, group_addresses, functions, extractVars>>

Sort ==
    /\ pc = "merged"
    /\ group_addresses' = sort_group_addresses(group_addresses)
    /\ devices' = sort_devices(devices)
    /\ pc' = "sorted"
    /\ UNCHANGED <<args, result, raised, xml, project, functions, extractVars>>

Transform ==
    /\ pc = "sorted"
    /\ project' = transform(group_addresses, devices, functions)
    /\ pc' = "done"
    /\ UNCHANGED <<args, result, raised, xml, group_addresses, devices, functions,
                   extractVars>>

Next == Load \/ LoadApplicationPrograms \/ Sort \/ Transform

Spec == Init /\ [][Next]_vars

\* The output document exists.
Returned == pc = "done"

SeqToSet(seq) == {seq[i] : i \in 1..Len(seq)}

\* The identifiers of the project's group addresses.
GroupAddressIds == {xml.GroupAddresses[i].Id[2] : i \in 1..Len(xml.GroupAddresses)}

\* The instance ref elements of the devices that have an individual
\* address, each with the key it would get in the output.
InstanceRefElements ==
    UNION {
        {[key |-> com_object_key(DeviceInstance(xml.Devices[d]).individual_address,
                                 xml.Devices[d].ComObjectInstanceRefs[r].RefId),
          device |-> DeviceInstance(xml.Devices[d]).individual_address,
          links |-> xml.Devices[d].ComObjectInstanceRefs[r].Links] :
            r \in 1..Len(xml.Devices[d].ComObjectInstanceRefs)} :
        d \in {n \in 1..Len(xml.Devices) : xml.Devices[n].Address # Nothing}}

\* An instance ref without a link to a group address of the project.
Orphan(element) ==
    \A i \in 1..Len(element.links) : element.links[i] \notin GroupAddressIds

\* C8: every communication object of the output has a non-empty
\* group_address_links list whose addresses are keys of group_addresses, and
\* an instance ref with no link, or with links to unknown group addresses
\* only, is neither a communication object nor listed by its device.
C8_NoOrphans ==
    Returned =>
        /\ \A i \in 1..Len(project.communication_objects) :
              LET links == project.communication_objects[i].value.group_address_links
              IN  /\ links # <<>>
                  /\ SeqToSet(links) \subseteq DictKeys(project.group_addresses)
        /\ \A e \in InstanceRefElements :
              Orphan(e) =>
                  /\ e.key \notin DictKeys(project.communication_objects)
                  /\ e.key \notin
                        SeqToSet(DictGet(project.devices, e.device).communication_object_ids)

\* A device with an orphaned instance ref next to a linked one.
C8_Witness ==
    /\ Returned
    /\ \E e \in InstanceRefElements : e.links = <<"GA-9">>
    /\ \E e \in InstanceRefElements :
          /\ ~Orphan(e)
          /\ e.key \in DictKeys(project.communication_objects)
          /\ Len(DictGet(project.communication_objects, e.key).group_address_links) = 1
          /\ Len(e.links) = 2

\* C9: every id in group_addresses[X].communication_object_ids is a key of
\* communication_objects, and X is among that object's group_address_links.
C9_BackLinks ==
    Returned =>
        \A g \in 1..Len(project.group_addresses) :
            \A c \in SeqToSet(project.group_addresses[g].value.communication_object_ids) :
                /\ c \in DictKeys(project.communication_objects)
                /\ project.group_addresses[g].key \in
                      SeqToSet(DictGet(project.communication_objects, c).group_address_links)

\* A group address with a back-link, beside a communication object that
\* does not link to it.
C9_Witness ==
    /\ Returned
    /\ \E g \in 1..Len(project.group_addresses) :
          /\ project.group_addresses[g].value.communication_object_ids # <<>>
          /\ \E i \in 1..Len(project.communication_objects) :
                project.communication_objects[i].key \notin
                    SeqToSet(project.group_addresses[g].value.communication_object_ids)

\* C10: every id in a channel's communication_object_ids is a key of
\* communication_objects.
C10_ChannelIdsAreKeys ==
    Returned =>
        \A d \in 1..Len(project.devices) :
            \A ch \in 1..Len(project.devices[d].value.channels) :
                SeqToSet(project.devices[d].value.channels[ch].value.communication_object_ids)
                    \subseteq DictKeys(project.communication_objects)

\* A function refers to a group-address id that no group address has.
MissingFunctionReference ==
    \E f \in 1..Len(xml.Functions) :
        \E i \in 1..Len(xml.Functions[f].GroupAddressRefs) :
            xml.Functions[f].GroupAddressRefs[i].RefId[2] \notin GroupAddressIds

\* The address the group address with the identifier got.
AddressOfId(id) ==
    LET named == {g \in 1..Len(xml.GroupAddresses) : xml.GroupAddresses[g].Id[2] = id}
    IN  str_address(xml.GroupAddresses[Min(named)].Address, xml.GroupAddressStyle)

\* ProjectLoader.load raised UnexpectedDataError in this step.
LoadFailed == pc' = "failed" /\ raised' = UnexpectedDataError

\* ProjectLoader.load returned in this step, each function reference with
\* the formatted address of the group address it names.
LoadReturned ==
    /\ pc' = "loaded"
    /\ raised' = None
    /\ Len(functions') = Len(xml.Functions)
    /\ \A f \in 1..Len(functions') :
          /\ Len(functions'[f].group_addresses) = Len(xml.Functions[f].GroupAddressRefs)
          /\ \A i \in 1..Len(functions'[f].group_addresses) :
                functions'[f].group_addresses[i].address =
                    AddressOfId(xml.Functions[f].GroupAddressRefs[i].RefId[2])

\* C11: ProjectLoader.load fails with UnexpectedDataError exactly when a
\* function refers to a group-address id the project lacks, and otherwise
\* returns functions whose references carry the formatted address of the
\* group address with that id; in every output document the keys of each
\* function's group_addresses are keys of group_addresses.
C11_FunctionReferencesResolve ==
    /\ [][pc = "init" =>
            IF MissingFunctionReference THEN LoadFailed ELSE LoadReturned]_vars
    /\ [](Returned =>
            \A f \in 1..Len(project.functions) :
                DictKeys(project.functions[f].value.group_addresses)
                    \subseteq DictKeys(project.group_addresses))

\* A document with a function that has two resolved references.
C11_Witness ==
    /\ Returned
    /\ \E f \in 1..Len(project.functions) :
          /\ Len(project.functions[f].value.group_addresses) = 2
          /\ DictKeys(project.functions[f].value.group_addresses)
                \subseteq DictKeys(project.group_addresses)

\* The device elements that become devices, and whether an application
\* program is chosen for one: its product and its hardware program are in
\* the catalogs.
AddressedDevices == {d \in 1..Len(xml.Devices) : xml.Devices[d].Address # Nothing}

ApplicationChosen(element) ==
    /\ element.ProductRefId \in xml.Hardware.products
    /\ element.Hardware2ProgramRefId \in DictKeys(xml.Hardware.programs)

\* The application program file of a device element with a chosen
\* application program, and the id of the ComObjectRef that an instance ref
\* of the device names.
ApplicationRefOf(element) == DictGet(xml.Hardware.programs, element.Hardware2ProgramRefId)

ApplicationFileOf(element) ==
    DictGet(xml.Applications,
            split_once(element.ProductRefId, Underscore)[1] \o <<"/">>
                \o ApplicationRefOf(element) \o <<".", "x", "m", "l">>)

ComObjectRefIdOf(element, ref) ==
    IF xml.SchemaVersion <= ETS_4_2_SCHEMA_VERSION
       /\ startswith(ref.RefId, ApplicationRefOf(element))
    THEN ref.RefId
    ELSE ApplicationRefOf(element) \o Underscore \o strip_module_instance(ref.RefId, <<"O">>)

\* An instance ref names a ComObjectRef the application program lacks.
MissingComObjectRef ==
    \E d \in AddressedDevices :
        /\ ApplicationChosen(xml.Devices[d])
        /\ \E r \in 1..Len(xml.Devices[d].ComObjectInstanceRefs) :
              LET ref == xml.Devices[d].ComObjectInstanceRefs[r] IN
              /\ ref.Links # <<>>
              /\ ComObjectRefIdOf(xml.Devices[d], ref)
                    \notin DictKeys(ApplicationFileOf(xml.Devices[d]).ComObjectRefs)

\* The ComObjectRef of an instance ref names a ComObject the application
\* program lacks.
MissingComObject ==
    \E d \in AddressedDevices :
        /\ ApplicationChosen(xml.Devices[d])
        /\ \E r \in 1..Len(xml.Devices[d].ComObjectInstanceRefs) :
              LET ref == xml.Devices[d].ComObjectInstanceRefs[r]
                  file == ApplicationFileOf(xml.Devices[d])
                  id == ComObjectRefIdOf(xml.Devices[d], ref)
              IN  /\ ref.Links # <<>>
                  /\ id \in DictKeys(file.ComObjectRefs)
                  /\ DictGet(file.ComObjectRefs, id).ref_id \notin DictKeys(file.ComObjects)

\* A channel node without text names a channel the application program
\* lacks.
MissingChannel ==
    \E d \in AddressedDevices :
        /\ ApplicationChosen(xml.Devices[d])
        /\ \E c \in 1..Len(xml.Devices[d].Channels) :
              LET channel == xml.Devices[d].Channels[c] IN
              /\ channel.GroupObjectInstances # <<>>
              /\ channel.Text = <<>>
              /\ ApplicationRefOf(xml.Devices[d]) \o Underscore
                        \o strip_module_instance(channel.RefId, <<"C", "H">>)
                    \notin DictKeys(ApplicationFileOf(xml.Devices[d]).Channels)

\* C15: when an instance ref's com_object_ref_id is not among the
\* ComObjectRefs of the application program, when the ComObjectRef's RefId
\* is not among its ComObjects, or when a channel node without text names a
\* channel the application program lacks, parse fails with
\* UnexpectedDataError, not with an untyped error, and returns no document.
C15_TypedCrossReferenceErrors ==
    (MissingComObjectRef \/ MissingComObject \/ MissingChannel) /\ pc \notin {"init", "loaded"}
        => pc = "failed" /\ raised = UnexpectedDataError

\* C16: a device for which no application program is chosen is a key of
\* devices, its communication_object_ids are empty and no communication
\* object has it as device_address.
C16_NoApplicationNoComObjects ==
    Returned =>
        \A d \in AddressedDevices :
            ~ApplicationChosen(xml.Devices[d]) =>
                LET address == DeviceInstance(xml.Devices[d]).individual_address IN
                /\ address \in DictKeys(project.devices)
                /\ DictGet(project.devices, address).communication_object_ids = <<>>
                /\ \A i \in 1..Len(project.communication_objects) :
                      project.communication_objects[i].value.device_address # address

(***************************************************************************)
(* Specification SpecExtract: one  with extract(path, password)  scope, as *)
(* XKNXProj.parse and the tests enter it: the archive is opened, the       *)
(* contents are yielded, the body of the scope works on them, and the      *)
(* handles are released; afterwards a read on the contents is tried.       *)
(***************************************************************************)
KnxMasterXml == <<"k", "n", "x", "_", "m", "a", "s", "t", "e", "r", ".", "x", "m", "l">>
P1 == <<"P", "-", "1">>
M1 == <<"M", "-", "1">>
NestedSignature == P1 \o Slash \o <<"x">> \o SignatureSuffix

\* The entries of the outer archive, in the order of its directory.
Infolists ==
    {<<KnxMasterXml, P1 \o SignatureSuffix, P1 \o Slash \o Project0>>,
     <<KnxMasterXml, P1 \o SignatureSuffix, P1 \o ZipSuffix>>,
     <<KnxMasterXml, M1 \o SignatureSuffix, P1 \o ZipSuffix, P1 \o SignatureSuffix>>,
     <<KnxMasterXml, P1 \o Slash \o Project0>>,
     <<KnxMasterXml, M1 \o SignatureSuffix, P1 \o Slash \o Project0>>,
     <<KnxMasterXml, NestedSignature, P1 \o Slash \o Project0>>,
     <<KnxMasterXml, NestedSignature, P1 \o SignatureSuffix, P1 \o ZipSuffix>>}

Namespace(version) == <<"k", "n", "x", "/", "p", "r", "o", "j", "e", "c", "t", "/">> \o version
PlainLine == [decodable |-> TRUE, xmlns |-> Nothing]
NamespaceLine(version) == [decodable |-> TRUE, xmlns |-> Some(Namespace(version))]

\* The first lines of knx_master.xml: the namespace in the first or in the
\* second line (ETS 4.1, ETS 5.7, ETS 6), none at all, undecodable bytes, a
\* namespace without a version number.
MasterFiles ==
    {<<NamespaceLine(<<"1", "1">>)>>,
     <<PlainLine, NamespaceLine(<<"2", "0">>)>>,
     <<PlainLine, NamespaceLine(<<"2", "1">>)>>,
     <<PlainLine, PlainLine, NamespaceLine(<<"2", "0">>)>>,
     <<[decodable |-> FALSE, xmlns |-> Nothing]>>,
     <<PlainLine, NamespaceLine(<<"x">>)>>}

TruePassword == <<"t", "e", "s", "t">>
WrongPassword == <<"w", "r", "o", "n", "g">>
Passwords == {None, <<>>, TruePassword, WrongPassword}

\* The key the inner archive was encrypted with: ETS derives it from the
\* project password the way the schema version of the project asks for.
KeyOf(master) ==
    LET namespace == get_xml_namespace(master)
        version == get_schema_version(namespace.value)
    IN  IF namespace.raised = None /\ version.raised = None
        THEN zip_password(TruePassword, version.value)
        ELSE <<>>

\* opens: the entry "<project id>.zip" can be opened in the outer archive;
\* is_zip: what it holds is a ZIP archive.
Archives ==
    {[infolist |-> names, master |-> master, key |-> KeyOf(master),
      opens |-> opens, is_zip |-> is_zip] :
        names \in Infolists, master \in MasterFiles,
        opens \in BOOLEAN, is_zip \in BOOLEAN}

ReadRoot == "root.read"
OpenProject0 == "open_project_0"
RaiseRuntimeError == "raise RuntimeError"
RaiseUnexpectedDataError == "raise UnexpectedDataError"
BodyOperations == {ReadRoot, OpenProject0, RaiseRuntimeError, RaiseUnexpectedDataError}

\* At most this many operations in the body of the scope.
MaxBodySteps == 2

Bodies == UNION {[1..n -> BodyOperations] : n \in 0..MaxBodySteps}

InitExtract ==
    /\ pc = "extract"
    /\ args \in [archive : Archives, password : Passwords, body : Bodies,
                 after : {ReadRoot, OpenProject0}]
    /\ result = NoResult
    /\ xml = <<>>
    /\ group_addresses = <<>>
    /\ devices = <<>>
    /\ project = None
    /\ functions = <<>>
    /\ raised = None
    /\ zip_archive = Unopened
    /\ project_archive_file = Unopened
    /\ contents = Nothing
    /\ todo = args.body

\* The locals of extract.
project_id == get_project_id(args.archive.infolist)
xml_namespace == get_xml_namespace(args.archive.master)
schema_version == get_schema_version(xml_namespace.value)
password_protected ==
    \E i \in 1..Len(args.archive.infolist) :
        args.archive.infolist[i] = project_id.value \o ZipSuffix

\* with ZipFile(archive_path, mode="r") as zip_archive
OpenArchive ==
    /\ pc = "extract"
    /\ zip_archive' = Opened
    /\ pc' = "identify"
    /\ UNCHANGED <<args, result, raised, parserVars, project_archive_file, contents, todo>>

\* _get_project_id and _get_xml_namespace; either may raise.
Identify ==
    /\ pc = "identify"
    /\ raised' = IF project_id.raised # None THEN project_id.raised
                 ELSE xml_namespace.raised
    /\ pc' = IF raised' = None THEN "getinfo" ELSE "exit_outer"
    /\ UNCHANGED <<args, result, parserVars, extractVars>>

\* The archive holds no "<project id>.zip": the contents are yielded, with
\* the outer archive as the project archive. KNXProjContents.__init__ reads
\* the schema version and may raise.
YieldUnprotected ==
    /\ pc = "getinfo"
    /\ ~password_protected
    /\ raised' = schema_version.raised
    /\ IF schema_version.raised = None
       THEN /\ contents' = Some([protected |-> FALSE,
                            project_relative_path |-> project_id.value \o Slash,
                            schema_version |-> schema_version.value])
            /\ pc' = "body"
       ELSE /\ pc' = "exit_outer"
            /\ UNCHANGED contents
    /\ UNCHANGED <<args, result, parserVars, zip_archive, project_archive_file, todo>>

\* The archive is protected: the schema version is read, and
\* _extract_protected_project_file starts: it asks for a password and opens
\* the stream of the inner archive. When the open raises, the finally
\* clause closes a stream that was never bound.
EnterProtected ==
    /\ pc = "getinfo"
    /\ password_protected
    /\ IF schema_version.raised # None
       THEN /\ raised' = schema_version.raised
            /\ pc' = "exit_outer"
            /\ UNCHANGED project_archive_file
       ELSE IF ~Truthy(args.password)
       THEN /\ raised' = InvalidPasswordException
            /\ pc' = "exit_outer"
            /\ UNCHANGED project_archive_file
       ELSE IF ~args.archive.opens
       THEN /\ raised' = UnboundLocalError
            /\ pc' = "exit_outer"
            /\ UNCHANGED project_archive_file
       ELSE /\ project_archive_file' = Opened
            /\ pc' = "open_project_archive"
            /\ UNCHANGED raised
    /\ UNCHANGED <<args, result, parserVars, zip_archive, contents, todo>>

\* ZipFile / AESZipFile over the stream, setpassword, and the yield of the
\* contents with the inner archive as the project archive.
OpenProjectArchive ==
    /\ pc = "open_project_archive"
    /\ IF args.archive.is_zip
       THEN /\ contents' = Some([protected |-> TRUE,
                            project_relative_path |-> <<>>,
                            schema_version |-> schema_version.value])
            /\ pc' = "body"
            /\ UNCHANGED raised
       ELSE /\ raised' = BadZipFile
            /\ pc' = "exit_inner"
            /\ UNCHANGED contents
    /\ UNCHANGED <<args, result, parserVars, zip_archive, project_archive_file, todo>>

\* What an operation of the body raises (None when it succeeds).
Outcome(operation) ==
    CASE operation = ReadRoot -> root_read(zip_archive)
      [] operation = OpenProject0 ->
            open_project_0(contents[1], args.archive, args.password,
                           zip_archive, project_archive_file)
      [] operation = RaiseRuntimeError -> RuntimeError
      [] operation = RaiseUnexpectedDataError -> UnexpectedDataError

\* Where the scope is left to: through _extract_protected_project_file when
\* the archive is protected.
ExitOf(knx_proj_contents) ==
    IF knx_proj_contents.protected THEN "exit_inner" ELSE "exit_outer"

\* The body of the scope does its next operation; an exception leaves the
\* scope.
BodyStep ==
    /\ pc = "body"
    /\ todo # <<>>
    /\ raised' = Outcome(Head(todo))
    /\ todo' = Tail(todo)
    /\ pc' = IF raised' = None THEN "body" ELSE ExitOf(contents[1])
    /\ UNCHANGED <<args, result, parserVars, zip_archive, project_archive_file, contents>>

\* The body of the scope ends normally.
BodyReturn ==
    /\ pc = "body"
    /\ todo = <<>>
    /\ pc' = ExitOf(contents[1])
    /\ UNCHANGED <<args, result, raised, parserVars, extractVars>>

\* The except and finally clauses of _extract_protected_project_file.
ExitProtected ==
    /\ pc = "exit_inner"
    /\ raised' = exit_protected(raised, project_archive_file).raised
    /\ project_archive_file' = exit_protected(raised, project_archive_file).project_archive_file
    /\ pc' = "exit_outer"
    /\ UNCHANGED <<args, result, parserVars, zip_archive, contents, todo>>

\* The end of the  with ZipFile  block of extract.
CloseArchive ==
    /\ pc = "exit_outer"
    /\ zip_archive' = ZipFile_exit(zip_archive, raised)
    /\ pc' = "left"
    /\ UNCHANGED <<args, result, raised, parserVars, project_archive_file, contents, todo>>

\* After the scope, a read on the contents that were yielded is tried.
ReadAfterScope ==
    /\ pc = "left"
    /\ contents # Nothing
    /\ result' = Outcome(args.after)
    /\ pc' = "read"
    /\ UNCHANGED <<args, raised, parserVars, extractVars>>

NextExtract ==
    \/ OpenArchive
    \/ Identify
    \/ YieldUnprotected
    \/ EnterProtected
    \/ OpenProjectArchive
    \/ BodyStep
    \/ BodyReturn
    \/ ExitProtected
    \/ CloseArchive
    \/ ReadAfterScope

SpecExtract == InitExtract /\ [][NextExtract]_vars

\* The extract scope was left.
Left == pc \in {"left", "read"}

\* extract found the project id, the namespace and the schema version, and
\* "<project id>.zip" in the outer archive.
ProtectedArchive ==
    /\ project_id.raised = None
    /\ xml_namespace.raised = None
    /\ schema_version.raised = None
    /\ password_protected

\* The body of the scope opens a stream of the project archive, and nothing
\* it does before raises.
BodyOpensStream ==
    \E k \in 1..Len(args.body) :
        /\ args.body[k] = OpenProject0
        /\ \A j \in 1..(k - 1) : args.body[j] = ReadRoot

TopLevelProjectIds ==
    {removesuffix(args.archive.infolist[i], SignatureSuffix) :
        i \in {n \in 1..Len(args.archive.infolist) :
                /\ startswith(args.archive.infolist[n], ProjectPrefix)
                /\ endswith(args.archive.infolist[n], SignatureSuffix)
                /\ \A c \in 1..Len(args.archive.infolist[n]) :
                      args.archive.infolist[n][c] # "/"}}

\* C13: the project id is the stem of a top-level file P-XXXX.signature, and
\* extract fails with ProjectNotFoundException when the top level holds no
\* such file, also when one lies below a folder "P-...".
C13_TopLevelSignature ==
    pc \notin {"extract", "identify"} =>
        IF TopLevelProjectIds = {}
        THEN raised = ProjectNotFoundException
        ELSE project_id.raised = None /\ project_id.value \in TopLevelProjectIds

\* C14: when the extract scope is left, by a return or by any error, the
\* outer archive is closed and the stream of the inner archive is closed if
\* it was opened; a read on the contents after the scope fails.
C14_HandlesReleased ==
    /\ Left =>
          /\ zip_archive = ClosedHandle
          /\ project_archive_file \in {Unopened, ClosedHandle}
    /\ pc = "read" => result = ValueError

\* A protected archive whose scope was left by an error of the body; the
\* read tried afterwards failed.
C14_Witness ==
    /\ pc = "read"
    /\ contents # Nothing
    /\ contents[1].protected
    /\ raised = UnexpectedDataError
    /\ project_archive_file = ClosedHandle
    /\ zip_archive = ClosedHandle
    /\ result = ValueError

\* C17: the stream of the inner archive is closed before the outer archive
\* is: the outer archive is never closed while the stream is open, and the
\* stream is closed in a step in which the outer archive is still open.
C17_InnerBeforeOuter ==
    /\ [](zip_archive = ClosedHandle => project_archive_file # Opened)
    /\ [][(project_archive_file = Opened /\ project_archive_file' # Opened) =>
            (zip_archive = Opened /\ zip_archive' = Opened)]_vars
    /\ [][(zip_archive = Opened /\ zip_archive' # Opened) =>
            project_archive_file \in {Unopened, ClosedHandle}]_vars

\* A protected archive whose scope was left by an error of the body: the
\* stream is closed already, the outer archive is about to be.
C17_Witness ==
    /\ pc = "exit_outer"
    /\ contents # Nothing
    /\ contents[1].protected
    /\ raised = UnexpectedDataError
    /\ project_archive_file = ClosedHandle
    /\ zip_archive = Opened

\* The error the body of the scope raises, given that no read fails.
BodyError ==
    LET raising == {k \in 1..Len(args.body) :
                        args.body[k] \in {RaiseRuntimeError, RaiseUnexpectedDataError}}
    IN  IF raising = {} THEN None
        ELSE IF args.body[Min(raising)] = RaiseRuntimeError THEN RuntimeError
        ELSE UnexpectedDataError

\* C18: on a protected archive opened with the correct password, an error
\* raised inside the scope leaves the scope unchanged; it is never turned
\* into InvalidPasswordException.
C18_OnlyPasswordErrors ==
    (Left /\ ProtectedArchive /\ args.password = TruePassword
        /\ args.archive.opens /\ args.archive.is_zip) =>
        /\ raised # InvalidPasswordException
        /\ raised = BodyError

(***************************************************************************)
(* Specification SpecBaseNumber: apply_module_base_number_argument is      *)
(* applied to one merged instance ref of a device with module instances.   *)
(***************************************************************************)
MaxModuleInstances == 2

ApplicationPrefix == <<"M", "-", "1", "_", "A", "-", "1", "_">>
ArgumentA == <<"M", "-", "1", "_", "A", "-", "1", "_", "M", "D", "-", "1", "_", "A", "-", "1">>
ArgumentS == <<"M", "-", "1", "_", "A", "-", "1", "_", "M", "D", "-", "1", "_", "S", "M", "-", "1", "_", "A", "-", "1">>
ObjectRef == <<"_", "O", "-", "1", "_", "R", "-", "1">>

ModuleId(i) == <<"M", "D", "-", "1", "_", "M", "-", "1", "_", "M", "I", "-">> \o str(i)
SubModuleId(i) == ModuleId(i) \o <<"_", "S", "M", "-", "1", "_", "M", "-", "1", "_", "M", "I", "-", "1">>

InstanceRefIds ==
    {<<"O", "-", "1", "_", "R", "-", "1">>}
        \cup {ModuleId(i) \o ObjectRef : i \in 1..MaxModuleInstances}
        \cup {SubModuleId(i) \o ObjectRef : i \in 1..MaxModuleInstances}

\* The instance refs after merge_application_program_info: number and
\* base_number_argument_ref are those of the ComObject.
MergedInstanceRefs ==
    [ref_id : InstanceRefIds,
     number : {Some(1), Some(10)},
     base_number_argument_ref : {None, ArgumentA, ArgumentS},
     application_program_id_prefix : {ApplicationPrefix},
     module : {Nothing}]

ArgumentValues == {<<"0">>, <<"5">>, <<"L", "-", "1">>, <<"L", "-", "9">>}
SubArgumentValues == {<<"2">>, <<"L", "-", "2">>}
Allocations == {Nothing, Some(3)}

\* The module instances MI-1 .. of module definition MD-1, all with the same
\* argument, and one sub-module instance.
Modules(value, allocates) ==
    [i \in 1..MaxModuleInstances |->
        ModuleInstance(ModuleId(i), <<"M", "D", "-", "1", "_", "M", "-", "1">>,
                       <<ModuleInstanceArgument(ArgumentA, value, allocates)>>)]

SubModule(i, value, allocates) ==
    ModuleInstance(SubModuleId(i), <<"M", "D", "-", "1", "_", "S", "M", "-", "1", "_", "M", "-", "1">>,
                   <<ModuleInstanceArgument(ArgumentS, value, allocates)>>)

ModuleInstanceLists ==
    {<<>>}
        \cup {Modules(v, a) : v \in ArgumentValues, a \in Allocations}
        \cup {<<SubModule(i, sv, sa)>> : i \in 1..MaxModuleInstances,
                                         sv \in SubArgumentValues, sa \in Allocations}
        \cup UNION {{Modules(v, a) \o <<SubModule(i, sv, sa)>>,
                     <<SubModule(i, sv, sa)>> \o Modules(v, a)} :
                        v \in ArgumentValues, a \in Allocations,
                        i \in 1..MaxModuleInstances,
                        sv \in SubArgumentValues, sa \in Allocations}

Allocator(identifier, start) ==
    [key |-> identifier, value |-> [identifier |-> identifier, start |-> start]]

AllocatorDicts ==
    {<<Allocator(<<"M", "-", "1", "_", "A", "-", "1", "_", "L", "-", "1">>, 100)>>,
     <<Allocator(<<"M", "-", "1", "_", "A", "-", "1", "_", "L", "-", "1">>, 100), Allocator(<<"M", "-", "1", "_", "A", "-", "1", "_", "L", "-", "2">>, 200)>>}

NumericArgDicts ==
    {<<>>,
     <<[key |-> ArgumentS, value |-> [base_value |-> None]]>>,
     <<[key |-> ArgumentS, value |-> [base_value |-> ArgumentA]]>>}

ApplicationPrograms == [allocators : AllocatorDicts, numeric_args : NumericArgDicts]

InitBaseNumber ==
    /\ pc = "call"
    /\ args \in [self : MergedInstanceRefs,
                 module_instances : ModuleInstanceLists,
                 application : ApplicationPrograms]
    /\ result = NoResult
    /\ ParserIdle
    /\ ExtractIdle

\* apply_module_base_number_argument up to the choice of the module instance.
FindModuleInstance ==
    /\ pc = "call"
    /\ LET self == args.self
           found == find_module_instance(self, args.module_instances)
       IN  IF base_number_not_applicable(self)
           THEN /\ result' = [self |-> self, module_instance |-> Nothing]
                /\ pc' = "done"
                /\ UNCHANGED raised
           ELSE IF found = Nothing
           THEN /\ raised' = UnexpectedDataError
                /\ pc' = "done"
                /\ UNCHANGED result
           ELSE /\ result' = [self |-> self, module_instance |-> found]
                /\ pc' = "module_instance"
                /\ UNCHANGED raised
    /\ UNCHANGED <<args, xml, group_addresses, devices, project, functions, extractVars>>

\* apply_module_base_number_argument from _parse_base_number_argument on.
ApplyBaseNumber ==
    /\ pc = "module_instance"
    /\ LET module_instance == result.module_instance[1]
           base_number == parse_base_number_argument(args.self, module_instance,
                              args.self.base_number_argument_ref,
                              args.module_instances, args.application)
       IN  IF base_number.raised # None
           THEN /\ raised' = base_number.raised
                /\ UNCHANGED result
           ELSE /\ result' = [result EXCEPT
                        !.self = apply_base_number(args.self, module_instance,
                                                   base_number.value)]
                /\ UNCHANGED raised
    /\ pc' = "done"
    /\ UNCHANGED <<args, xml, group_addresses, devices, project, functions, extractVars>>

NextBaseNumber == FindModuleInstance \/ ApplyBaseNumber

SpecBaseNumber == InitBaseNumber /\ [][NextBaseNumber]_vars

\* The module instance that owns an instance ref: its identifier followed by
\* "_" starts the ref_id, and where a sub-module instance and its base
\* module instance both do, it is the sub-module instance (the longer one).
OwningModuleInstances(self, module_instances) ==
    {i \in 1..Len(module_instances) :
        /\ startswith(self.ref_id, module_instances[i].identifier \o Underscore)
        /\ \A j \in 1..Len(module_instances) :
              startswith(self.ref_id, module_instances[j].identifier \o Underscore)
                  => Len(module_instances[j].identifier)
                        <= Len(module_instances[i].identifier)}

\* The integers the owning module instance gives the base number argument.
IntegerBaseNumbers(owner, base_number_argument_ref) ==
    {int(owner.arguments[k].value).value : k \in
        {k \in 1..Len(owner.arguments) :
            /\ owner.arguments[k].ref_id = base_number_argument_ref
            /\ int(owner.arguments[k].value).raised = None}}

\* C19: for an instance ref whose ref_id starts with "MD-" and whose
\* ComObject has a BaseNumber argument, when the owning module instance's
\* argument value parses as an integer v, the final number is the ComObject
\* number + v, module.root_number is the ComObject number and
\* module.definition is the owning module instance's definition id; for an
\* instance ref whose ref_id does not start with "MD-" or whose ComObject has
\* no BaseNumber, the number is the ComObject number and module is absent.
C19_IntegerBaseNumber ==
    pc = "done" =>
        LET self == args.self IN
        IF self.base_number_argument_ref # None /\ startswith(self.ref_id, MDPrefix)
        THEN \A i \in OwningModuleInstances(self, args.module_instances) :
                LET owner == args.module_instances[i] IN
                \A v \in IntegerBaseNumbers(owner, self.base_number_argument_ref) :
                    /\ raised = None
                    /\ result.self.number = Some(self.number[1] + v)
                    /\ result.self.module =
                          Some([definition |-> owner.definition_id,
                                root_number |-> self.number[1]])
        ELSE /\ raised = None
             /\ result.self.number = self.number
             /\ result.self.module = Nothing

\* The integer that follows the first "_MI-" of a ref_id.
IndexAfterMI(ref_id) ==
    LET rest == Slice(ref_id, find(ref_id, MIInfix) + Len(MIInfix), Len(ref_id))
        stop == find(rest, Underscore)
    IN  DecimalValue(IF stop = 0 THEN rest ELSE Slice(rest, 1, stop - 1))

\* The arguments of a module instance that are the base number argument of
\* self and whose value is not an integer.
AllocatorArguments(self, owner) ==
    {k \in 1..Len(owner.arguments) :
        /\ owner.arguments[k].ref_id = self.base_number_argument_ref
        /\ int(owner.arguments[k].value).raised # None}

\* What C20 says of the instance ref, the module instance owning it and its
\* base number argument.
C20_OfArgument(self, argument) ==
    LET allocators == args.application.allocators
        named == {a \in 1..Len(allocators) :
                    allocators[a].value.identifier =
                        self.application_program_id_prefix \o argument.value}
    IN  IF named = {} THEN raised = UnexpectedDataError
        ELSE argument.allocates # Nothing =>
                /\ raised = None
                /\ \A a \in named :
                      result.self.number =
                          Some(self.number[1] + allocators[a].value.start
                               + argument.allocates[1] * (IndexAfterMI(self.ref_id) - 1))

BaseNumberApplies ==
    /\ pc = "done"
    /\ args.self.base_number_argument_ref # None
    /\ startswith(args.self.ref_id, MDPrefix)

SubModuleOwners ==
    {i \in OwningModuleInstances(args.self, args.module_instances) :
        /\ args.module_instances[i].base_module # None
        /\ \E j \in 1..Len(args.module_instances) :
              /\ args.module_instances[j].identifier =
                    args.module_instances[i].base_module
              /\ startswith(args.self.ref_id,
                            args.module_instances[j].identifier \o Underscore)}

\* C22: when the instance ref belongs to a sub-module instance, so that the
\* sub-module instance and its base module instance both match the ref_id,
\* apply_module_base_number_argument chooses the sub-module instance, uses
\* its arguments and sets module.definition to its "MD-x_SM-y" definition
\* id, whatever the order of the module instances.
C22_SubModuleInstanceOwns ==
    (pc \in {"module_instance", "done"} /\ ~base_number_not_applicable(args.self)) =>
        \A i \in SubModuleOwners :
            /\ result.module_instance = Some(args.module_instances[i])
            /\ (pc = "done" /\ raised = None) =>
                  result.self.module[1].definition =
                      args.module_instances[i].definition_id

\* The amount C20 gives an argument that names an allocator and declares
\* Allocates.
AllocatorContributions(self, argument) ==
    IF argument.allocates = Nothing THEN {}
    ELSE LET allocators == args.application.allocators
         IN  {allocators[a].value.start
                + argument.allocates[1] * (IndexAfterMI(self.ref_id) - 1) :
              a \in {a \in 1..Len(allocators) :
                        allocators[a].value.identifier =
                            self.application_program_id_prefix \o argument.value}}

\* The value of the BaseValue argument in the base module instance: the
\* literal integer, or the argument's own allocator contribution.
BaseValues(self, base, base_value_ref) ==
    UNION {IF int(base.arguments[k].value).raised = None
           THEN {int(base.arguments[k].value).value}
           ELSE AllocatorContributions(self, base.arguments[k]) :
           k \in {k \in 1..Len(base.arguments) :
                     base.arguments[k].ref_id = base_value_ref}}

\* The BaseValue of the NumericArg of an argument, None without one.
BaseValueOf(argument) ==
    IF argument.ref_id \in DictKeys(args.application.numeric_args)
    THEN DictGet(args.application.numeric_args, argument.ref_id).base_value
    ELSE None

\* C21: for an instance ref owned by a sub-module instance whose base number
\* argument names an allocator and whose NumericArg carries a BaseValue, the
\* resolution ends, and the offset is the value resolved for the BaseValue
\* argument in the base module instance plus the sub-module argument's own
\* allocator contribution; without the base module instance among the
\* module instances it fails with UnexpectedDataError.
C21_SubModuleBaseValue ==
    BaseNumberApplies =>
        \A i \in OwningModuleInstances(args.self, args.module_instances) :
            LET owner == args.module_instances[i] IN
            owner.base_module # None =>
                \A k \in AllocatorArguments(args.self, owner) :
                    BaseValueOf(owner.arguments[k]) # None =>
                        LET bases == {j \in 1..Len(args.module_instances) :
                                        args.module_instances[j].identifier
                                            = owner.base_module}
                        IN  IF bases = {} THEN raised = UnexpectedDataError
                            ELSE \A j \in bases :
                                 \A b \in BaseValues(args.self, args.module_instances[j],
                                                     BaseValueOf(owner.arguments[k])) :
                                 \A c \in AllocatorContributions(args.self,
                                                                 owner.arguments[k]) :
                                    /\ raised = None
                                    /\ result.self.number =
                                          Some(args.self.number[1] + b + c)

(***************************************************************************)
(* Specification SpecMerge: one instance ref of a device is merged with    *)
(* its ComObjectRef and ComObject                                          *)
(* (ComObjectInstanceRef.merge_application_program_info).                  *)
(***************************************************************************)
MergeRefIds == {<<"O", "-", "1", "_", "R", "-", "1">>, <<"M", "D", "-", "1", "_", "M", "-", "1", "_", "M", "I", "-", "1", "_", "O", "-", "1", "_", "R", "-", "1">>}

\* What the ComObjectInstanceRef element says of the inherited fields:
\* nothing, everything, or some of them (an empty FunctionText is a value).
InstanceProfiles ==
    {[function_text |-> None, datapoint_types |-> <<>>,
      read_flag |-> Nothing, write_flag |-> Nothing, communication_flag |-> Nothing,
      transmit_flag |-> Nothing, update_flag |-> Nothing, read_on_init_flag |-> Nothing],
     [function_text |-> <<"f", "i">>, datapoint_types |-> <<DPTType(1, Some(1))>>,
      read_flag |-> Some(TRUE), write_flag |-> Some(FALSE),
      communication_flag |-> Some(TRUE), transmit_flag |-> Some(FALSE),
      update_flag |-> Some(TRUE), read_on_init_flag |-> Some(FALSE)],
     [function_text |-> <<>>, datapoint_types |-> <<>>,
      read_flag |-> Some(FALSE), write_flag |-> Nothing, communication_flag |-> Nothing,
      transmit_flag |-> Some(TRUE), update_flag |-> Nothing, read_on_init_flag |-> Nothing],
     [function_text |-> None, datapoint_types |-> <<DPTType(1, Nothing)>>,
      read_flag |-> Nothing, write_flag |-> Some(TRUE), communication_flag |-> Some(FALSE),
      transmit_flag |-> Nothing, update_flag |-> Some(FALSE),
      read_on_init_flag |-> Some(TRUE)]}

\* The instance refs as ProjectLoader creates them and
\* resolve_com_object_ref_id completes them.
InstanceRefs ==
    {resolve_com_object_ref_id(
        profile @@ [ref_id |-> ref_id, text |-> text, links |-> <<"GA-1">>,
                    application_program_id_prefix |-> <<>>, com_object_ref_id |-> None,
                    name |-> None, object_size |-> None,
                    base_number_argument_ref |-> None, number |-> Nothing,
                    module |-> Nothing],
        ApplicationProgramRef, FALSE) :
        profile \in InstanceProfiles, ref_id \in MergeRefIds,
        text \in {None, <<>>, <<"i", "t">>}}

ComObjectRefProfiles ==
    {[function_text |-> None, object_size |-> None, name |-> None,
      datapoint_types |-> <<>>,
      read_flag |-> Nothing, write_flag |-> Nothing, communication_flag |-> Nothing,
      transmit_flag |-> Nothing, update_flag |-> Nothing, read_on_init_flag |-> Nothing],
     [function_text |-> <<"f", "r">>, object_size |-> <<"2", " ", "B", "i", "t">>, name |-> <<"n", "r">>,
      datapoint_types |-> <<DPTType(5, Some(1))>>,
      read_flag |-> Some(FALSE), write_flag |-> Some(TRUE),
      communication_flag |-> Some(FALSE), transmit_flag |-> Some(TRUE),
      update_flag |-> Some(FALSE), read_on_init_flag |-> Some(TRUE)],
     [function_text |-> <<>>, object_size |-> <<"2", " ", "B", "i", "t">>, name |-> None,
      datapoint_types |-> <<>>,
      read_flag |-> Some(TRUE), write_flag |-> Nothing, communication_flag |-> Some(TRUE),
      transmit_flag |-> Nothing, update_flag |-> Nothing,
      read_on_init_flag |-> Some(FALSE)]}

ParameterRef == <<"M", "-", "1", "_", "A", "-", "1", "_", "P", "-", "1", "_", "R", "-", "1">>
ModuleParameterRef == <<"M", "-", "1", "_", "A", "-", "1", "_", "M", "D", "-", "1", "_", "P", "-", "1", "_", "R", "-", "1">>
ModuleParameterInstanceRef == <<"M", "-", "1", "_", "A", "-", "1", "_", "M", "D", "-", "1", "_", "M", "-", "1", "_", "M", "I", "-", "1", "_", "P", "-", "1", "_", "R", "-", "1">>

\* The texts of a ComObjectRef: none, empty, plain, or with a placeholder
\* without or with a default.
ComObjectRefTexts == {None, <<>>, <<"p", "l", "a", "i", "n">>, <<"{", "{", "0", "}", "}">>, <<"T", "{", "{", "0", ":", "d", "}", "}">>}

ComObjectRefs ==
    {profile @@ [ref_id |-> <<"M", "-", "1", "_", "A", "-", "1", "_", "O", "-", "1">>, text |-> text,
                 text_parameter_ref_id |-> text_parameter_ref_id] :
        profile \in ComObjectRefProfiles, text \in ComObjectRefTexts,
        text_parameter_ref_id \in
            {None, ParameterRef, ModuleParameterRef, <<"M", "-", "1", "_", "A", "-", "1", "_", "M", "D", "-", "1", "_", "X", "-", "1">>}}

\* The ComObject: its flags are booleans, FunctionText, ObjectSize and
\* DatapointType may be missing.
ComObjects ==
    {[number |-> 5, name |-> <<"n", "o">>, text |-> <<"o", "t">>, base_number_argument_ref |-> None,
      function_text |-> <<"f", "o">>, object_size |-> <<"1", " ", "B", "y", "t", "e">>,
      datapoint_types |-> <<DPTType(9, Some(1))>>,
      read_flag |-> Some(TRUE), write_flag |-> Some(TRUE),
      communication_flag |-> Some(FALSE), transmit_flag |-> Some(FALSE),
      update_flag |-> Some(TRUE), read_on_init_flag |-> Some(FALSE)],
     [number |-> 5, name |-> <<"n", "o">>, text |-> <<"o", "t">>, base_number_argument_ref |-> None,
      function_text |-> None, object_size |-> None, datapoint_types |-> <<>>,
      read_flag |-> Some(FALSE), write_flag |-> Some(FALSE),
      communication_flag |-> Some(FALSE), transmit_flag |-> Some(FALSE),
      update_flag |-> Some(FALSE), read_on_init_flag |-> Some(FALSE)]}

\* The parameter instances of the device: none, or one with no value, an
\* empty value or a value.
ParameterInstances ==
    {<<>>} \cup
    {<<[key |-> k, value |-> [ref_id |-> k, value |-> v]]>> :
        k \in {ParameterRef, ModuleParameterInstanceRef}, v \in {None, <<>>, <<"v">>}}

InitMerge ==
    /\ pc = "call"
    /\ \E self \in InstanceRefs, com_object_ref \in ComObjectRefs,
          com_object \in ComObjects, parameters \in ParameterInstances :
          args = [self |-> self,
                  application |->
                     [com_object_refs |->
                         <<[key |-> self.com_object_ref_id, value |-> com_object_ref]>>,
                      com_objects |->
                         <<[key |-> com_object_ref.ref_id, value |-> com_object]>>],
                  parameters |-> parameters]
    /\ result = NoResult
    /\ ParserIdle
    /\ ExtractIdle

\* com_instance.merge_application_program_info(application,
\* self.parameter_instance_refs)
MergeApplicationProgramInfo ==
    /\ pc = "call"
    /\ \E merged \in {merge_com_object(args.self, args.application, args.parameters)} :
          IF merged.raised # None
          THEN raised' = merged.raised /\ UNCHANGED result
          ELSE result' = merged.self /\ UNCHANGED raised
    /\ pc' = "done"
    /\ UNCHANGED <<args, xml, group_addresses, devices, project, functions, extractVars>>

NextMerge == MergeApplicationProgramInfo

SpecMerge == InitMerge /\ [][NextMerge]_vars

FlagFields ==
    {"read_flag", "write_flag", "communication_flag", "transmit_flag",
     "update_flag", "read_on_init_flag"}

InheritedFields ==
    {"function_text", "object_size", "name", "datapoint_types"} \cup FlagFields

\* What a field holds when it has no value: an empty datapoint type list
\* counts as none.
NoValue(field) ==
    IF field = "datapoint_types" THEN <<>>
    ELSE IF field \in FlagFields THEN Nothing
    ELSE None

MergedComObjectRef == args.application.com_object_refs[1].value
MergedComObject == args.application.com_objects[1].value

\* C23: after merge_application_program_info each of function_text,
\* object_size, name, datapoint_types and the six flags of an instance ref
\* is its own value if it has one, else the ComObjectRef's if that has one,
\* else the ComObject's; a value of a nearer level is never replaced by one
\* of a farther level.
C23_NearestValueWins ==
    (pc = "done" /\ raised = None) =>
        \A field \in InheritedFields :
            result[field] =
                IF args.self[field] # NoValue(field) THEN args.self[field]
                ELSE IF MergedComObjectRef[field] # NoValue(field)
                THEN MergedComObjectRef[field]
                ELSE MergedComObject[field]

\* An instance ref took values of all three levels: its own write flag
\* although the ComObjectRef has none and its own communication flag
\* against the ComObjectRef's, the ComObjectRef's object size and empty
\* function text, the ComObject's name and transmit flag.
C23_Witness ==
    /\ pc = "done"
    /\ raised = None
    /\ args.self.communication_flag = Some(FALSE)
    /\ MergedComObjectRef.communication_flag = Some(TRUE)
    /\ result.communication_flag = Some(FALSE)
    /\ result.write_flag = Some(TRUE)
    /\ args.self.function_text = None
    /\ result.function_text = <<>>
    /\ result.object_size = <<"2", " ", "B", "i", "t">>
    /\ MergedComObject.function_text = <<"f", "o">>
    /\ result.name = <<"n", "o">>
    /\ args.self.transmit_flag = Nothing
    /\ result.transmit_flag = Some(FALSE)
    /\ result.datapoint_types = <<DPTType(1, Nothing)>>

\* The parameter instance the text of the ComObjectRef is filled from: the
\* one under the TextParameterRefId rewritten with the module instance part
\* of the instance ref, Nothing when the device has none.
TextParameter ==
    LET key == text_parameter_insert_module_instance(args.self.ref_id, <<"O">>,
                    MergedComObjectRef.text_parameter_ref_id).value
    IN  IF key \in DictKeys(args.parameters)
        THEN Some(DictGet(args.parameters, key))
        ELSE Nothing

\* C24: when an instance ref has no text of its own and its ComObjectRef has
\* a text and a TextParameterRefId, the text after the merge is the
\* ComObjectRef's text with every placeholder "{{0}}" / "{{0:default}}"
\* substituted from the device's parameter instances, and no placeholder is
\* left in it, also when the parameter is unbound or has no value and the
\* substituted text is empty.
C24_PlaceholdersSubstituted ==
    (/\ pc = "done"
     /\ raised = None
     /\ args.self.text = None
     /\ Truthy(MergedComObjectRef.text)
     /\ Truthy(MergedComObjectRef.text_parameter_ref_id)) =>
        /\ result.text =
              text_parameter_template_replace(MergedComObjectRef.text, TextParameter)
        /\ \A p \in 1..Len(result.text) : Closings(result.text, p) = {}

(***************************************************************************)
(* Specification SpecLocations: the spaces of the project are sorted       *)
(* (recursive_sort_spaces of _sort) and converted                          *)
(* (_recursive_convert_spaces of _transform).                              *)
(***************************************************************************)
\* At most this many devices in a space.
MaxSpaceDevices == 2

IndividualAddresses == {<<"1", ".", "1", ".", "2">>, <<"1", ".", "1", ".", "1", "0">>, <<"0", ".", "1", ".", "1">>}

\* The individual addresses of a space in document order, each device once.
SpaceDeviceLists ==
    UNION {{devs \in [1..n -> IndividualAddresses] :
                \A i, j \in 1..n : devs[i] = devs[j] => i = j} :
           n \in 0..MaxSpaceDevices}

XMLSpace(identifier, name, space_devices, sub_spaces) ==
    [identifier |-> identifier, name |-> name, devices |-> space_devices,
     spaces |-> sub_spaces, functions |-> <<>>]

\* A building, with or without a floor, alone or before a garden.
Buildings ==
    {XMLSpace("P-1_BP-1", <<"B", "u", "i", "l", "d", "i", "n", "g">>, devs, sub) :
        devs \in SpaceDeviceLists,
        sub \in {<<>>} \cup {<<XMLSpace("P-1_BP-2", <<"F", "l", "o", "o", "r">>, d, <<>>)>> :
                                d \in SpaceDeviceLists}}

SpaceLists ==
    {<<b>> : b \in Buildings}
        \cup {<<b, XMLSpace("P-1_BP-3", <<"G", "a", "r", "d", "e", "n">>, d, <<>>)>> :
                b \in Buildings, d \in SpaceDeviceLists}

InitLocations ==
    /\ pc = "loaded"
    /\ args \in [spaces : SpaceLists]
    /\ result = NoResult
    /\ ParserIdle
    /\ ExtractIdle

\* _sort, its part on self.spaces.
SortSpaces ==
    /\ pc = "loaded"
    /\ result' = recursive_sort_spaces(args.spaces)
    /\ pc' = "sorted"
    /\ UNCHANGED <<args, raised, xml, group_addresses, devices, project, functions,
                   extractVars>>

\* _transform, its part on self.spaces: the locations of the document.
ConvertSpaces ==
    /\ pc = "sorted"
    /\ result' = recursive_convert_spaces(result)
    /\ pc' = "done"
    /\ UNCHANGED <<args, raised, xml, group_addresses, devices, project, functions,
                   extractVars>>

NextLocations == SortSpaces \/ ConvertSpaces

SpecLocations == InitLocations /\ [][NextLocations]_vars

\* The locations of a document at every nesting depth.
RECURSIVE AllLocations(_)
AllLocations(locations) ==
    UNION {{locations[i].value} \cup AllLocations(locations[i].value.spaces) :
           i \in 1..Len(locations)}

\* The (area, line, device) numbers of an individual address.
AddressNumbers(ia) == [i \in 1..3 |-> DecimalValue(SplitOn(ia, ".")[i])]

\* C25: in the output the device list of every location, at every nesting
\* depth, is sorted ascending by the (area, line, device) tuple of the
\* individual address compared as numbers: 1.1.2 comes before 1.1.10.
C25_LocationDevicesSorted ==
    pc = "done" =>
        \A location \in AllLocations(result) :
            \A i, j \in 1..Len(location.devices) :
                i < j => ~TupleLess(AddressNumbers(location.devices[j]),
                                    AddressNumbers(location.devices[i]))

(***************************************************************************)
(* Specification SpecOrder: two projects that hold the same entries in     *)
(* different document order are parsed (XMLParser.parse).                  *)
(***************************************************************************)
Reverse(s) == [i \in 1..Len(s) |-> s[Len(s) + 1 - i]]

\* The same project with one kind of entry, or every kind, listed in the
\* opposite document order.
Reordered(project_xml) ==
    LET instance_refs_reversed ==
            [i \in 1..Len(project_xml.Devices) |->
                [project_xml.Devices[i] EXCEPT
                    !.ComObjectInstanceRefs = Reverse(@)]]
    IN  {project_xml,
         [project_xml EXCEPT !.Devices = Reverse(@)],
         [project_xml EXCEPT !.GroupAddresses = Reverse(@)],
         [project_xml EXCEPT !.Functions = Reverse(@)],
         [project_xml EXCEPT !.Devices = instance_refs_reversed],
         [project_xml EXCEPT !.Devices = Reverse(instance_refs_reversed),
                             !.GroupAddresses = Reverse(@),
                             !.Functions = Reverse(@)]}

InitOrder ==
    /\ pc = "first"
    /\ \E first \in {x \in ProjectXmls : x.GroupAddressStyle = THREELEVEL} :
       \E second \in Reordered(first) :
          args = [first |-> first, second |-> second]
    /\ result = NoResult
    /\ ParserIdle
    /\ ExtractIdle

\* XMLParser(...).parse() on the first project.
ParseFirst ==
    /\ pc = "first"
    /\ result' = [first |-> parse(args.first), second |-> NoResult]
    /\ pc' = "second"
    /\ UNCHANGED <<args, raised, xml, group_addresses, devices, project, functions,
                   extractVars>>

\* XMLParser(...).parse() on the second project.
ParseSecond ==
    /\ pc = "second"
    /\ result' = [result EXCEPT !.second = parse(args.second)]
    /\ pc' = "done"
    /\ UNCHANGED <<args, raised, xml, group_addresses, devices, project, functions,
                   extractVars>>

NextOrder == ParseFirst \/ ParseSecond

SpecOrder == InitOrder /\ [][NextOrder]_vars

\* The keys of a dict in their order.
KeyList(d) == [i \in 1..Len(d) |-> d[i].key]

\* The communication_object_ids of the entries of a dict, in its order.
ComObjectIdLists(d) == [i \in 1..Len(d) |-> d[i].value.communication_object_ids]

BothParsed ==
    /\ pc = "done"
    /\ result.first.raised = None
    /\ result.second.raised = None

SameDevices ==
    KeyList(result.first.project.devices) = KeyList(result.second.project.devices)

SameGroupAddresses ==
    KeyList(result.first.project.group_addresses)
        = KeyList(result.second.project.group_addresses)

SameFunctions ==
    KeyList(result.first.project.functions) = KeyList(result.second.project.functions)

SameComObjectIds ==
    /\ ComObjectIdLists(result.first.project.devices)
          = ComObjectIdLists(result.second.project.devices)
    /\ ComObjectIdLists(result.first.project.group_addresses)
          = ComObjectIdLists(result.second.project.group_addresses)

\* C26: two projects that hold the same entries in different document order
\* give documents whose ordered containers (devices, group_addresses,
\* functions, the communication_object_ids of each device and of each group
\* address) have the same entries in the same order.
C26_OrderIndependent ==
    BothParsed =>
        /\ SameDevices
        /\ SameGroupAddresses
        /\ SameFunctions
        /\ SameComObjectIds

(***************************************************************************)
(* Specification SpecPrograms: the part of XMLParser._load behind the      *)
(* hardware catalogs, step by step: the application program of each device *)
(* is chosen, the devices are grouped by application program file, each    *)
(* file is loaded, each device is merged.                                  *)
(***************************************************************************)
\* A plausible slip: result[xml_file_name] = [device], so that a group
\* keeps its last device only.
get_application_program_files_for_devices_Overwrites(devs) ==
    LET Fill[i \in 0..Len(devs)] ==
            IF i = 0 THEN <<>>
            ELSE IF ~Truthy(devs[i].application_program_ref) THEN Fill[i - 1]
            ELSE DictSet(Fill[i - 1], application_program_xml(devs[i]), <<i>>)
    IN  Fill[Len(devs)]

\* ApplicationProgramLoader.get_application_program_files_for_devices: the
\* dict of the file names, in the order of their first device, each with
\* the positions of its devices in self.devices (the dict holds the device
\* objects themselves).
get_application_program_files_for_devices(devs) ==
    LET Fill[i \in 0..Len(devs)] ==
            IF i = 0 THEN <<>>
            ELSE IF ~Truthy(devs[i].application_program_ref) THEN Fill[i - 1]
            ELSE With(application_program_xml(devs[i]), LAMBDA xml_file_name :
                 DictSet(Fill[i - 1], xml_file_name,
                     Append(IF xml_file_name \in DictKeys(Fill[i - 1])
                            THEN DictGet(Fill[i - 1], xml_file_name)
                            ELSE <<>>,
                            i)))
    IN  Fill[Len(devs)]

Product2 == <<"M", "-", "2", "_", "H", "-", "1", "_", "P", "-", "1">>
HardwareProgram2 == <<"M", "-", "1", "_", "H", "-", "1", "_", "H", "P", "-", "2">>
HardwareProgram0 == <<"M", "-", "1", "_", "H", "-", "1", "_", "H", "P", "-", "0">>
ApplicationProgramRef2 == <<"M", "-", "1", "_", "A", "-", "2">>

\* The catalog: two products of two manufacturers, and hardware programs
\* with the application program M-1_A-1, with M-1_A-2 and with an
\* ApplicationProgramRef whose RefId is empty.
ProgramCatalog ==
    [products |-> {Product1, Product2},
     programs |-> <<[key |-> HardwareProgram1, value |-> ApplicationProgramRef],
                    [key |-> HardwareProgram2, value |-> ApplicationProgramRef2],
                    [key |-> HardwareProgram0, value |-> <<>>]>>]

\* An application program file with the ComObject O-1, the ComObjectRef
\* O-1_R-1 and the Argument MD-1_A-1.
ProgramFile(manufacturer, program) ==
    [key |-> manufacturer \o <<"/">> \o program \o <<".", "x", "m", "l">>,
     value |->
        [ComObjects |-> <<[key |-> program \o <<"_", "O", "-", "1">>, value |-> ComObject1.value]>>,
         ComObjectRefs |->
            <<[key |-> program \o <<"_", "O", "-", "1", "_", "R", "-", "1">>,
               value |-> ComObjectRef1(program \o <<"_", "O", "-", "1">>).value]>>,
         Channels |-> <<>>,
         Allocators |-> <<>>,
         Arguments |-> <<[key |-> program \o <<"_", "M", "D", "-", "1", "_", "A", "-", "1">>,
                          value |-> [name |-> <<"b", "a", "s", "e">>, allocates |-> Nothing]]>>,
         NumericArgs |-> <<>>]]

\* The files of the project: M-2/M-1_A-2.xml is missing.
ProgramFiles ==
    <<ProgramFile(<<"M", "-", "1">>, ApplicationProgramRef),
      ProgramFile(<<"M", "-", "1">>, ApplicationProgramRef2),
      ProgramFile(<<"M", "-", "2">>, ApplicationProgramRef)>>

Module1 ==
    [Id |-> <<"M", "D", "-", "1", "_", "M", "-", "1", "_", "M", "I", "-", "1">>, RefId |-> <<"M", "D", "-", "1">>,
     Arguments |-> <<[RefId |-> <<"M", "D", "-", "1", "_", "A", "-", "1">>, Value |-> <<"1">>]>>]

\* What a device of the project may be: its product and hardware program
\* (in the catalog or not), its module instances and its instance refs
\* (O-2_R-2 is in no application program).
ProgramDeviceKinds ==
    {<<Product1, HardwareProgram1, <<>>, <<RefIds[1]>>>>,
     <<Product1, HardwareProgram1, <<Module1>>, <<>>>>,
     <<Product1, HardwareProgram2, <<>>, <<RefIds[1]>>>>,
     <<Product2, HardwareProgram1, <<Module1>>, <<RefIds[1]>>>>,
     <<Product2, HardwareProgram2, <<>>, <<RefIds[1]>>>>,
     <<Product9, HardwareProgram1, <<>>, <<RefIds[1]>>>>,
     <<Product1, HardwareProgram9, <<>>, <<RefIds[1]>>>>,
     <<Product1, HardwareProgram0, <<>>, <<RefIds[1]>>>>,
     <<Product1, HardwareProgram1, <<>>, <<RefIds[1], RefIds[2]>>>>}

\* At most this many devices in the project.
MaxProgramDevices == 3

\* The devices as ProjectLoader.load returns them: 1.1.1, 1.1.2, ...
ProgramDevices ==
    {[i \in 1..n |->
        DeviceInstance(
            [Area |-> 1, Line |-> 1, Address |-> Some(i),
             ProductRefId |-> kinds[i][1], Hardware2ProgramRefId |-> kinds[i][2],
             ModuleInstances |-> kinds[i][3],
             ComObjectInstanceRefs |->
                [r \in 1..Len(kinds[i][4]) |->
                    [RefId |-> kinds[i][4][r], Links |-> <<"GA-1">>]],
             Channels |-> <<>>])] :
        n \in 1..MaxProgramDevices, kinds \in [1..MaxProgramDevices -> ProgramDeviceKinds]}

InitPrograms ==
    /\ pc = "choose"
    /\ xml = [SchemaVersion |-> 20, Hardware |-> ProgramCatalog,
              Applications |-> ProgramFiles]
    /\ devices \in ProgramDevices
    /\ result = [groups |-> <<>>, applications |-> <<>>, loads |-> <<>>, position |-> 1]
    /\ args = <<>>
    /\ group_addresses = <<>>
    /\ functions = <<>>
    /\ project = None
    /\ raised = None
    /\ ExtractIdle

\* The loop over self.devices that sets application_program_ref and
\* completes the ids of the instance refs and of the arguments.
ChooseApplicationPrograms ==
    /\ pc = "choose"
    /\ devices' = [i \in 1..Len(devices) |->
                      choose_application_program(devices[i], xml.Hardware,
                          is_ets4_project(xml.SchemaVersion))]
    /\ pc' = "group"
    /\ UNCHANGED <<args, result, raised, xml, group_addresses, project, functions,
                   extractVars>>

\* application_programs = get_application_program_files_for_devices(...)
GetApplicationProgramFiles ==
    /\ pc = "group"
    /\ \E groups \in {get_application_program_files_for_devices(devices)} :
          /\ result' = [result EXCEPT !.groups = groups]
          /\ pc' = IF groups = <<>> THEN "merge" ELSE "load"
    /\ UNCHANGED <<args, raised, xml, group_addresses, devices, project, functions,
                   extractVars>>

\* One turn of the loop over application_programs.items(): the file of the
\* next group is opened and loaded for the devices of the group; a missing
\* file ends _load. result.loads is the record of the calls of
\* ApplicationProgramLoader.load.
LoadApplicationProgram ==
    /\ pc = "load"
    /\ \E group \in {result.groups[Len(result.applications) + 1]} :
          IF group.key \notin DictKeys(xml.Applications)
          THEN /\ raised' = FileNotFoundError
               /\ pc' = "failed"
               /\ UNCHANGED result
          ELSE \E devs \in {[i \in 1..Len(group.value) |-> devices[group.value[i]]]} :
               /\ result' = [result EXCEPT
                     !.applications = Append(@,
                         [key |-> group.key,
                          value |-> ApplicationProgramLoader_load(
                                        DictGet(xml.Applications, group.key), devs)]),
                     !.loads = Append(@, [file |-> group.key, devices |-> devs])]
               /\ pc' = IF Len(result.applications) + 1 = Len(result.groups)
                        THEN "merge" ELSE "load"
               /\ UNCHANGED raised
    /\ UNCHANGED <<args, xml, group_addresses, devices, project, functions, extractVars>>

\* One turn of the last loop over self.devices: a device whose file is no
\* key of applications is passed over, the others are merged; an exception
\* of the merge ends _load.
MergeDevice ==
    /\ pc = "merge"
    /\ result.position <= Len(devices)
    /\ \E device \in {devices[result.position]} :
          IF application_program_xml(device) \notin DictKeys(result.applications)
          THEN UNCHANGED <<devices, raised>> /\ pc' = "merge"
          ELSE \E merged \in {merge_application_program_info(device,
                                 DictGet(result.applications,
                                         application_program_xml(device)))} :
               IF merged.raised # None
               THEN /\ raised' = merged.raised
                    /\ pc' = "failed"
                    /\ UNCHANGED devices
               ELSE /\ devices' = [devices EXCEPT ![result.position] = merged.device]
                    /\ pc' = "merge"
                    /\ UNCHANGED raised
    /\ result' = [result EXCEPT !.position = @ + 1]
    /\ UNCHANGED <<args, xml, group_addresses, project, functions, extractVars>>

\* The last loop is over.
LoadReturns ==
    /\ pc = "merge"
    /\ result.position > Len(devices)
    /\ pc' = "done"
    /\ UNCHANGED <<args, result, raised, xml, group_addresses, devices, project,
                   functions, extractVars>>

NextPrograms ==
    \/ ChooseApplicationPrograms
    \/ GetApplicationProgramFiles
    \/ LoadApplicationProgram
    \/ MergeDevice
    \/ LoadReturns

SpecPrograms == InitPrograms /\ [][NextPrograms]_vars

\* The device has a chosen application program.
Chosen(device) == Truthy(device.application_program_ref)

\* <manufacturer>/<application-program-ref>.xml
ProgramFileName(device) ==
    split_once(device.product_ref, Underscore)[1] \o <<"/">>
        \o device.application_program_ref \o <<".", "x", "m", "l">>

\* The calls of ApplicationProgramLoader.load for a file.
LoadsOf(file) == {k \in 1..Len(result.loads) : result.loads[k].file = file}

AddressesOf(devs) == [i \in 1..Len(devs) |-> devs[i].individual_address]

\* The com_object_ref_id of every instance ref and the ref_id of every
\* module instance argument of the device are resolved.
Resolved(device) ==
    /\ \A i \in 1..Len(device.com_object_instance_refs) :
          /\ device.com_object_instance_refs[i].com_object_ref_id # None
          /\ startswith(device.com_object_instance_refs[i].com_object_ref_id,
                        device.application_program_ref \o Underscore)
    /\ \A m \in 1..Len(device.module_instances) :
       \A a \in 1..Len(device.module_instances[m].arguments) :
          startswith(device.module_instances[m].arguments[a].ref_id,
                     device.application_program_ref \o Underscore)

\* The device as it was passed to the load call of its file.
LoadedDevice(device) ==
    LET call == result.loads[CHOOSE k \in LoadsOf(ProgramFileName(device)) : TRUE]
    IN  call.devices[CHOOSE i \in 1..Len(call.devices) :
                        call.devices[i].individual_address = device.individual_address]

\* C27: no application program file is loaded twice; the devices of each
\* load call are exactly the devices with a chosen application program
\* whose <manufacturer>/<application-program-ref>.xml is the file, in their
\* order, and their instance refs and arguments were resolved before the
\* call; when _load returns, the file of every device with a chosen
\* application program was loaded exactly once, and the device is the
\* result of its merge with the program loaded from that file.
C27_LoadedOnce ==
    pc \in {"load", "merge", "done"} =>
        /\ \A k \in 1..Len(result.loads) :
              /\ LoadsOf(result.loads[k].file) = {k}
              /\ AddressesOf(result.loads[k].devices) =
                    AddressesOf(SelectSeq(devices, LAMBDA d :
                        Chosen(d) /\ ProgramFileName(d) = result.loads[k].file))
              /\ \A i \in 1..Len(result.loads[k].devices) :
                    /\ Chosen(result.loads[k].devices[i])
                    /\ Resolved(result.loads[k].devices[i])
        /\ pc = "done" =>
              \A p \in 1..Len(devices) :
                 Chosen(devices[p]) =>
                    /\ Cardinality(LoadsOf(ProgramFileName(devices[p]))) = 1
                    /\ \E k \in LoadsOf(ProgramFileName(devices[p])) :
                          devices[p] =
                             merge_application_program_info(
                                LoadedDevice(devices[p]),
                                ApplicationProgramLoader_load(
                                    DictGet(xml.Applications, result.loads[k].file),
                                    result.loads[k].devices)).device

\* _load returned for three devices: two share one application program
\* file, which was loaded once for both, the third has no application
\* program, and the instance ref of a merged device has the number of its
\* ComObject.
C27_Witness ==
    /\ pc = "done"
    /\ Len(devices) = 3
    /\ Len(result.loads) = 1
    /\ Len(result.loads[1].devices) = 2
    /\ \E p \in 1..3 : ~Chosen(devices[p])
    /\ \E p \in 1..3 :
          /\ Chosen(devices[p])
          /\ Len(devices[p].com_object_instance_refs) = 1
          /\ devices[p].com_object_instance_refs[1].number = Some(5)

(***************************************************************************)
(* Specification SpecTranslations: ApplicationProgramLoader                *)
(* .parse_translations on the elements behind the Languages element of an  *)
(* application program file.                                               *)
(***************************************************************************)
\* An element of the iterator: its tag and the attributes the loader reads,
\* None for a missing one.
Element(tag, Identifier, RefId, AttributeName, Text) ==
    [tag |-> tag, Identifier |-> Identifier, RefId |-> RefId,
     AttributeName |-> AttributeName, Text |-> Text]

\* translation_map.setdefault(in_translation_ref, {})[AttributeName] = Text
set_translation(translation_map, in_translation_ref, elem) ==
    DictSet(translation_map, in_translation_ref,
            DictSet(IF in_translation_ref \in DictKeys(translation_map)
                    THEN DictGet(translation_map, in_translation_ref)
                    ELSE <<>>,
                    elem.AttributeName, elem.Text))

\* The loop over tree_iterator: the translation map, and the number of
\* elements taken from the iterator when the loop ends.
RECURSIVE scan_translations(_, _, _, _, _, _, _)
scan_translations(elements, taken, used_translation_ids, language_code, in_language, in_translation_ref, translation_map) ==
    IF taken = Len(elements)
    THEN [translation_map |-> translation_map, taken |-> taken]
    ELSE With(elements[taken + 1], LAMBDA elem :
         IF elem.tag = "Language"
         THEN IF in_language
              THEN [translation_map |-> translation_map, taken |-> taken + 1]
              ELSE scan_translations(elements, taken + 1, used_translation_ids,
                        language_code, elem.Identifier = language_code,
                        in_translation_ref, translation_map)
         ELSE IF in_language /\ elem.tag = "TranslationElement"
         THEN scan_translations(elements, taken + 1, used_translation_ids,
                   language_code, in_language,
                   IF elem.RefId \in used_translation_ids THEN elem.RefId ELSE None,
                   translation_map)
         ELSE IF in_language /\ in_translation_ref # None /\ elem.tag = "Translation"
         THEN scan_translations(elements, taken + 1, used_translation_ids,
                   language_code, in_language, in_translation_ref,
                   set_translation(translation_map, in_translation_ref, elem))
         ELSE scan_translations(elements, taken + 1, used_translation_ids,
                   language_code, in_language, in_translation_ref, translation_map))

\* translation.get(attribute)
translation_get(translation, attribute) ==
    IF attribute \in DictKeys(translation) THEN DictGet(translation, attribute) ELSE None

\* A plausible slip: "is not None" in place of the truth test, so that an
\* empty translation replaces the text.
apply_translations_EmptyReplaces(translatable_object_map, translation_map) ==
    [i \in 1..Len(translatable_object_map) |->
        With(translatable_object_map[i], LAMBDA item :
        IF item.key \notin DictKeys(translation_map) THEN item
        ELSE With(DictGet(translation_map, item.key), LAMBDA translation :
             With(IF translation_get(translation, "Text") # None
                  THEN [item.value EXCEPT !.text = translation_get(translation, "Text")]
                  ELSE item.value,
                  LAMBDA obj :
             [key |-> item.key,
              value |-> IF /\ "function_text" \in DOMAIN obj
                           /\ translation_get(translation, "FunctionText") # None
                        THEN [obj EXCEPT !.function_text =
                                translation_get(translation, "FunctionText")]
                        ELSE obj])))]

\* ApplicationProgramLoader.apply_translations
apply_translations(translatable_object_map, translation_map) ==
    [i \in 1..Len(translatable_object_map) |->
        With(translatable_object_map[i], LAMBDA item :
        IF item.key \notin DictKeys(translation_map) THEN item
        ELSE With(DictGet(translation_map, item.key), LAMBDA translation :
             With(IF Truthy(translation_get(translation, "Text"))
                  THEN [item.value EXCEPT !.text = translation_get(translation, "Text")]
                  ELSE item.value,
                  LAMBDA obj :
             [key |-> item.key,
              value |-> IF /\ "function_text" \in DOMAIN obj
                           /\ Truthy(translation_get(translation, "FunctionText"))
                        THEN [obj EXCEPT !.function_text =
                                translation_get(translation, "FunctionText")]
                        ELSE obj])))]

\* ApplicationProgramLoader.parse_translations: the three dicts afterwards
\* and the number of elements taken from the iterator.
parse_translations(tree_iterator, com_objects, com_object_refs, used_com_object_ref_ids, channels, language_code) ==
    With({com_object_refs[i].value.ref_id : i \in 1..Len(com_object_refs)}
            \cup used_com_object_ref_ids \cup DictKeys(channels),
         LAMBDA used_translation_ids :
    With(scan_translations(tree_iterator, 0, used_translation_ids, language_code,
                           FALSE, None, <<>>),
         LAMBDA scanned :
    [com_object_refs |-> apply_translations(com_object_refs, scanned.translation_map),
     com_objects |-> apply_translations(com_objects, scanned.translation_map),
     channels |-> apply_translations(channels, scanned.translation_map),
     taken |-> scanned.taken]))

\* The ids of the application program: the ComObjectRef O-1_R-1 of ComObject
\* O-1 is retained, O-3_R-3 is used by a device but not in the file, the
\* ComObjectRef O-2_R-2 of ComObject O-2 is not retained.
TranslatedRef == <<"M", "-", "1", "_", "A", "-", "1", "_", "O", "-", "1", "_", "R", "-", "1">>
UnusedRef == <<"M", "-", "1", "_", "A", "-", "1", "_", "O", "-", "2", "_", "R", "-", "2">>
MissingRef == <<"M", "-", "1", "_", "A", "-", "1", "_", "O", "-", "3", "_", "R", "-", "3">>
TranslatedObject == <<"M", "-", "1", "_", "A", "-", "1", "_", "O", "-", "1">>
UnusedObject == <<"M", "-", "1", "_", "A", "-", "1", "_", "O", "-", "2">>
TranslatedChannel == <<"M", "-", "1", "_", "A", "-", "1", "_", "C", "H", "-", "1">>

\* What a Language element may hold, its texts marked with the place of the
\* Language element in the file: TranslationElements for retained and other
\* ids, with texts that are filled, empty or missing.
LanguageContents(n) ==
    {<<>>,
     <<[RefId |-> TranslatedRef,
        Translations |-> <<<<"Text", <<"A">> \o n>>>>]>>,
     <<[RefId |-> TranslatedRef,
        Translations |-> <<<<"Text", <<>>>>, <<"FunctionText", <<"F">> \o n>>>>],
       [RefId |-> TranslatedObject,
        Translations |-> <<<<"FunctionText", <<>>>>, <<"Text", <<"B">> \o n>>>>]>>,
     <<[RefId |-> UnusedObject,
        Translations |-> <<<<"Text", <<"C">> \o n>>>>],
       [RefId |-> TranslatedChannel,
        Translations |-> <<<<"Text", <<"D">> \o n>>, <<"FunctionText", <<"G">> \o n>>>>],
       [RefId |-> UnusedRef,
        Translations |-> <<<<"FunctionText", <<"H">> \o n>>>>]>>,
     <<[RefId |-> <<"M", "-", "1", "_", "A", "-", "1", "_", "P", "-", "1">>,
        Translations |-> <<<<"Text", <<"E">> \o n>>>>],
       [RefId |-> TranslatedRef,
        Translations |-> <<<<"Text", None>>, <<"Name", <<"N">> \o n>>>>],
       [RefId |-> MissingRef,
        Translations |-> <<<<"Text", <<"I">> \o n>>>>]>>}

\* The start events of a Language element and of what it holds.
RECURSIVE TranslationElementEvents(_)
TranslationElementEvents(translation_elements) ==
    IF translation_elements = <<>> THEN <<>>
    ELSE <<Element("TranslationElement", None, Head(translation_elements).RefId, None, None)>>
         \o [t \in 1..Len(Head(translation_elements).Translations) |->
                Element("Translation", None, None,
                        Head(translation_elements).Translations[t][1],
                        Head(translation_elements).Translations[t][2])]
         \o TranslationElementEvents(Tail(translation_elements))

RECURSIVE LanguageEvents(_)
LanguageEvents(languages) ==
    IF languages = <<>> THEN <<>>
    ELSE <<Element("Language", Head(languages).Identifier, None, None, None),
           Element("TranslationUnit", None, <<"M", "-", "1", "_", "A", "-", "1">>, None, None)>>
         \o TranslationElementEvents(Head(languages).TranslationElements)
         \o LanguageEvents(Tail(languages))

\* At most this many Language elements in the file.
MaxLanguages == 3

LanguageLists ==
    {[i \in 1..n |-> [Identifier |-> identifiers[i],
                      TranslationElements |-> held[i]]] :
        n \in 1..MaxLanguages,
        identifiers \in [1..MaxLanguages -> {<<"d", "e", "-", "D", "E">>, <<"e", "n", "-", "U", "S">>}],
        held \in {c \in [1..MaxLanguages ->
                            UNION {LanguageContents(str(i)) : i \in 1..MaxLanguages}] :
                     \A i \in 1..MaxLanguages : c[i] \in LanguageContents(str(i))}}

InitTranslations ==
    /\ pc = "call"
    /\ \E languages \in LanguageLists :
          args = [languages |-> languages,
                  tree_iterator |-> LanguageEvents(languages),
                  com_objects |->
                     <<[key |-> TranslatedObject,
                        value |-> [text |-> <<"o", "t">>, function_text |-> <<"o", "f">>]],
                       [key |-> UnusedObject,
                        value |-> [text |-> <<"u", "t">>, function_text |-> None]]>>,
                  com_object_refs |->
                     <<[key |-> TranslatedRef,
                        value |-> [ref_id |-> TranslatedObject, text |-> None,
                                   function_text |-> <<"r", "f">>]]>>,
                  used_com_object_ref_ids |-> {TranslatedRef, MissingRef},
                  channels |->
                     <<[key |-> TranslatedChannel,
                        value |-> [text |-> <<"c", "t">>, name |-> <<"c", "n">>]]>>,
                  language_code |-> <<"d", "e", "-", "D", "E">>]
    /\ result = NoResult
    /\ ParserIdle
    /\ ExtractIdle

\* ApplicationProgramLoader.parse_translations(...)
ParseTranslations ==
    /\ pc = "call"
    /\ result' = parse_translations(args.tree_iterator, args.com_objects,
                     args.com_object_refs, args.used_com_object_ref_ids,
                     args.channels, args.language_code)
    /\ pc' = "done"
    /\ UNCHANGED <<args, raised, parserVars, extractVars>>

NextTranslations == ParseTranslations

SpecTranslations == InitTranslations /\ [][NextTranslations]_vars

\* The place of the selected Language element in the file: the first whose
\* Identifier is the language code, 0 when there is none.
SelectedLanguage ==
    LET matching == {i \in 1..Len(args.languages) :
                        args.languages[i].Identifier = args.language_code}
    IN  IF matching = {} THEN 0 ELSE Min(matching)

\* The ids whose translations are kept.
RetainedIds ==
    {TranslatedRef, MissingRef, TranslatedObject, TranslatedChannel}

\* The texts the selected Language element gives for an attribute of an
\* id: those of the Translation entries of its TranslationElements with
\* that RefId, if the id is retained and the text is not empty.
TranslationsOf(identifier, attribute) ==
    IF SelectedLanguage = 0 \/ identifier \notin RetainedIds THEN {}
    ELSE LET translation_elements == args.languages[SelectedLanguage].TranslationElements
         IN  {translation_elements[e].Translations[t][2] :
                 <<e, t>> \in {<<e, t>> \in (1..Len(translation_elements)) \X (1..2) :
                    /\ translation_elements[e].RefId = identifier
                    /\ t <= Len(translation_elements[e].Translations)
                    /\ translation_elements[e].Translations[t][1] = attribute
                    /\ Truthy(translation_elements[e].Translations[t][2])}}

\* The attribute of an object after parse_translations: the translation if
\* there is one, the value it had otherwise.
Translated(before, identifier, attribute) ==
    IF TranslationsOf(identifier, attribute) = {} THEN before
    ELSE CHOOSE text \in TranslationsOf(identifier, attribute) : TRUE

TranslatedDict(before, after) ==
    /\ Len(after) = Len(before)
    /\ \A i \in 1..Len(before) :
          /\ after[i].key = before[i].key
          /\ DOMAIN after[i].value = DOMAIN before[i].value
          /\ after[i].value.text = Translated(before[i].value.text, before[i].key, "Text")
          /\ "function_text" \in DOMAIN before[i].value =>
                after[i].value.function_text =
                    Translated(before[i].value.function_text, before[i].key,
                               "FunctionText")
          /\ \A field \in DOMAIN before[i].value \ {"text", "function_text"} :
                after[i].value[field] = before[i].value[field]

\* The number of elements up to and including the Language element behind
\* the selected one, all elements when there is none.
ScanEnd ==
    IF SelectedLanguage = 0 \/ SelectedLanguage = Len(args.languages)
    THEN Len(args.tree_iterator)
    ELSE Len(LanguageEvents(SubSeq(args.languages, 1, SelectedLanguage))) + 1

\* C28: after parse_translations the text (and the function text, for
\* ComObjects and ComObjectRefs) of every object is the non-empty text a
\* Translation entry gives for it inside the first Language element with
\* the active language code and inside a TranslationElement whose RefId is
\* a retained ComObjectRef id, the id of a ComObject of a retained
\* ComObjectRef or a channel id, and is unchanged without such an entry;
\* nothing else of any object changes, and the iterator was read up to the
\* Language element behind the selected one.
C28_TranslationsApplied ==
    pc = "done" =>
        /\ TranslatedDict(args.com_object_refs, result.com_object_refs)
        /\ TranslatedDict(args.com_objects, result.com_objects)
        /\ TranslatedDict(args.channels, result.channels)
        /\ result.taken = ScanEnd

\* The second of three Language elements is the first with the language
\* code and the third has it too: the ComObjectRef took its function text
\* and kept its text against an empty translation, the ComObject took its
\* text, and the scan ended at the third Language element.
C28_Witness ==
    /\ pc = "done"
    /\ Len(args.languages) = 3
    /\ SelectedLanguage = 2
    /\ args.languages[3].Identifier = args.language_code
    /\ args.languages[3].TranslationElements # <<>>
    /\ args.languages[1].TranslationElements # <<>>
    /\ result.com_object_refs[1].value.function_text = <<"F", "2">>
    /\ result.com_object_refs[1].value.text = None
    /\ result.com_objects[1].value.text = <<"B", "2">>
    /\ result.com_objects[1].value.function_text = <<"o", "f">>
    /\ result.taken < Len(args.tree_iterator)

(***************************************************************************)
(* Specification SpecCombine: combination.combine_project on a parsed      *)
(* project.                                                                *)
(***************************************************************************)
\* _get_dpt_from_object_size
get_dpt_from_object_size(object_size) ==
    IF object_size = <<"1", " ", "B", "i", "t">> THEN <<DPTType(1, Nothing)>>
    ELSE IF object_size = <<"2", " ", "B", "i", "t">> THEN <<DPTType(2, Nothing)>>
    ELSE IF object_size = <<"4", " ", "B", "i", "t">> THEN <<DPTType(3, Nothing)>>
    ELSE <<>>

\* A plausible slip: the datapoint type of the first linked object that has
\* one, whatever the others say.
get_dpt_from_comm_objects_FirstObject(comm_objects) ==
    LET having == SelectSeq(comm_objects, LAMBDA co : co.dpts # <<>>)
    IN  IF having = <<>> THEN Nothing ELSE Some(having[1].dpts[1])

\* _get_dpt_from_comm_objects: the set of the DPTTuples of the objects, and
\* what it says, Nothing standing for None.
get_dpt_from_comm_objects(comm_objects) ==
    With(UNION {SeqToSet(comm_objects[i].dpts) : i \in 1..Len(comm_objects)},
         LAMBDA dpts :
    IF dpts = {} THEN Nothing
    ELSE IF Cardinality(dpts) = 1 THEN Some(CHOOSE dpt \in dpts : TRUE)
    ELSE With({dpt.main : dpt \in dpts}, LAMBDA mains :
         IF Cardinality(mains) = 1
         THEN Some(DPTType(CHOOSE _main \in mains : TRUE, Nothing))
         ELSE Nothing))

\* combine_project: the first loop fills the empty dpts of the
\* communication objects, the second the missing dpt of the group addresses.
combine_project(parsed) ==
    With([i \in 1..Len(parsed.communication_objects) |->
            With(parsed.communication_objects[i], LAMBDA item :
            IF item.value.dpts = <<>>
            THEN [item EXCEPT !.value.dpts =
                    get_dpt_from_object_size(item.value.object_size)]
            ELSE item)],
         LAMBDA communication_objects :
    [parsed EXCEPT
        !.communication_objects = communication_objects,
        !.group_addresses =
            [i \in 1..Len(parsed.group_addresses) |->
                With(parsed.group_addresses[i], LAMBDA item :
                IF item.value.dpt = Nothing
                THEN [item EXCEPT !.value.dpt =
                        get_dpt_from_comm_objects(
                            [j \in 1..Len(item.value.communication_object_ids) |->
                                DictGet(communication_objects,
                                        item.value.communication_object_ids[j])])]
                ELSE item)]])

\* At most this many communication objects in the project.
MaxCommunicationObjects == 3

CommunicationObjectId(i) == <<"1", ".", "1", ".", "1", "/", "O", "-">> \o str(i)

\* What a communication object may say of its type: nothing, with a size
\* that has a default or one that has none, one datapoint type, or two.
CommunicationObjectKinds ==
    {[dpts |-> <<>>, object_size |-> <<"1", " ", "B", "i", "t">>],
     [dpts |-> <<>>, object_size |-> <<"1", " ", "B", "y", "t", "e">>],
     [dpts |-> <<DPTType(1, Some(1))>>, object_size |-> <<"1", " ", "B", "i", "t">>],
     [dpts |-> <<DPTType(5, Some(1))>>, object_size |-> <<"1", " ", "B", "y", "t", "e">>],
     [dpts |-> <<DPTType(5, Some(1)), DPTType(5, Some(4))>>, object_size |-> <<"1", " ", "B", "y", "t", "e">>]}

\* The communication objects a group address may be linked to: those from
\* one place of the project to another, or none.
LinkedObjectLists ==
    {[j \in 1..(b - a + 1) |-> CommunicationObjectId(a + j - 1)] :
        <<a, b>> \in {<<a, b>> \in (1..MaxCommunicationObjects) \X (0..MaxCommunicationObjects) :
                         a <= b + 1}}

\* The parsed projects: the communication objects, a group address with or
\* without a datapoint type (Nothing standing for None), and a second group
\* address with one.
ParsedProjects ==
    {[communication_objects |->
         [i \in 1..MaxCommunicationObjects |->
             [key |-> CommunicationObjectId(i),
              value |-> [name |-> <<"c", "o">>] @@ kinds[i]]],
      group_addresses |->
         <<[key |-> <<"1", "/", "0", "/", "1">>,
            value |-> [name |-> <<"g", "a">>, dpt |-> dpt, communication_object_ids |-> linked]],
           [key |-> <<"1", "/", "0", "/", "2">>,
            value |-> [name |-> <<"g", "b">>, dpt |-> Some(DPTType(9, Some(1))),
                       communication_object_ids |-> other]]>>] :
        kinds \in [1..MaxCommunicationObjects -> CommunicationObjectKinds],
        dpt \in {Nothing, Some(DPTType(7, Nothing))},
        linked \in LinkedObjectLists,
        other \in {<<>>, <<CommunicationObjectId(1)>>}}

InitCombine ==
    /\ pc = "parsed"
    /\ args \in ParsedProjects
    /\ result = NoResult
    /\ ParserIdle
    /\ ExtractIdle

\* project = combine_project(project)
CombineProject ==
    /\ pc = "parsed"
    /\ result' = combine_project(args)
    /\ pc' = "done"
    /\ UNCHANGED <<args, raised, parserVars, extractVars>>

NextCombine == CombineProject

SpecCombine == InitCombine /\ [][NextCombine]_vars

\* The datapoint types of a communication object once the defaults of the
\* object sizes are filled in.
FilledDpts(communication_object) ==
    IF communication_object.dpts # <<>> THEN communication_object.dpts
    ELSE IF communication_object.object_size = <<"1", " ", "B", "i", "t">> THEN <<DPTType(1, Nothing)>>
    ELSE IF communication_object.object_size = <<"2", " ", "B", "i", "t">> THEN <<DPTType(2, Nothing)>>
    ELSE IF communication_object.object_size = <<"4", " ", "B", "i", "t">> THEN <<DPTType(3, Nothing)>>
    ELSE <<>>

\* The {main, sub} pairs of the communication objects linked to a group
\* address.
LinkedPairs(group_address) ==
    UNION {SeqToSet(FilledDpts(DictGet(args.communication_objects,
                                       group_address.communication_object_ids[j]))) :
           j \in 1..Len(group_address.communication_object_ids)}

\* C29: after combine_project a group address that had a datapoint type has
\* it still; one that had none has the single {main, sub} pair of its linked
\* communication objects if their datapoint types form exactly one pair,
\* {main, null} if they form several pairs with one main, and none
\* otherwise; nothing else of a group address changes, and a communication
\* object with datapoint types is unchanged.
C29_CombinedDpt ==
    pc = "done" =>
        /\ Len(result.group_addresses) = Len(args.group_addresses)
        /\ \A i \in 1..Len(args.group_addresses) :
              LET before == args.group_addresses[i].value
                  after == result.group_addresses[i].value
                  pairs == LinkedPairs(before)
              IN  /\ result.group_addresses[i].key = args.group_addresses[i].key
                  /\ after = [before EXCEPT !.dpt = after.dpt]
                  /\ before.dpt # Nothing => after.dpt = before.dpt
                  /\ before.dpt = Nothing =>
                        \/ /\ Cardinality(pairs) = 1
                           /\ after.dpt \in {Some(pair) : pair \in pairs}
                        \/ /\ Cardinality(pairs) > 1
                           /\ \E _main \in {pair.main : pair \in pairs} :
                                 /\ \A pair \in pairs : pair.main = _main
                                 /\ after.dpt = Some(DPTType(_main, Nothing))
                        \/ /\ \/ pairs = {}
                              \/ \E p, q \in pairs : p.main # q.main
                           /\ after.dpt = Nothing
        /\ \A i \in 1..Len(args.communication_objects) :
              args.communication_objects[i].value.dpts # <<>> =>
                 result.communication_objects[i] = args.communication_objects[i]

\* A group address without datapoint type is linked to an object with
\* 1.001 and to one of 1 bit without datapoint type: it has {1, null}
\* afterwards, and the group address with 9.001 has it still.
C29_Witness ==
    /\ pc = "done"
    /\ args.group_addresses[1].value.dpt = Nothing
    /\ Len(args.group_addresses[1].value.communication_object_ids) >= 2
    /\ LinkedPairs(args.group_addresses[1].value)
          = {DPTType(1, Some(1)), DPTType(1, Nothing)}
    /\ result.group_addresses[1].value.dpt = Some(DPTType(1, Nothing))
    /\ args.group_addresses[2].value.communication_object_ids # <<>>
    /\ result.group_addresses[2].value.dpt = Some(DPTType(9, Some(1)))

(***************************************************************************)
(* Specification SpecMergeOrder: the devices of one application program    *)
(* are merged with it (DeviceInstance.merge_application_program_info),     *)
(* the three loops of the merges of different devices in any order.        *)
(***************************************************************************)
\* A plausible slip: the assignments of _merge_from_parent_object the other
\* way round, so that the ComObjectRefs take the texts of the instance refs
\* of the device.
merged_application_WritesBack(application, device) ==
    [application EXCEPT !.com_object_refs =
        [i \in 1..Len(application.com_object_refs) |->
            With(application.com_object_refs[i], LAMBDA item :
            With(SelectSeq(device.com_object_instance_refs,
                           LAMBDA ref : ref.com_object_ref_id = item.key),
                 LAMBDA instance_refs :
            IF instance_refs = <<>> THEN item
            ELSE [item EXCEPT !.value.text = instance_refs[1].text,
                              !.value.function_text = instance_refs[1].function_text]))]]

\* The ApplicationProgram when a device was merged with it: every
\* assignment of merge_application_program_info and of what it calls is to
\* an attribute of the device, of its instance refs, arguments or channel
\* nodes, none to the application program.
merged_application(application, device) == application

\* What a device of the application program M-1_A-1 may be: its module
\* instances and its instance refs, of which O-2_R-2 is in no application
\* program and one has a text and flags of its own.
MergeDeviceKinds ==
    {<<<<>>, <<[RefId |-> RefIds[1], Links |-> <<"GA-1">>]>>>>,
     <<<<Module1>>, <<[RefId |-> RefIds[1], Links |-> <<"GA-1">>]>>>>,
     <<<<>>, <<[RefId |-> RefIds[1], Links |-> <<"GA-1">>, Text |-> <<"o", "w", "n">>,
                FunctionText |-> <<"f", "n">>, WriteFlag |-> <<"D", "i", "s", "a", "b", "l", "e", "d">>]>>>>,
     <<<<>>, <<[RefId |-> RefIds[1], Links |-> <<"GA-1">>],
              [RefId |-> RefIds[2], Links |-> <<"GA-1">>]>>>>}

\* At most this many devices with the application program.
MaxMergeDevices == 3

\* The devices when their application program was chosen.
MergeDevices ==
    {[i \in 1..n |->
        choose_application_program(
            DeviceInstance(
                [Area |-> 1, Line |-> 1, Address |-> Some(i),
                 ProductRefId |-> Product1, Hardware2ProgramRefId |-> HardwareProgram1,
                 ModuleInstances |-> kinds[i][1],
                 ComObjectInstanceRefs |-> kinds[i][2],
                 Channels |-> <<>>]),
            ProgramCatalog, FALSE)] :
        n \in 2..MaxMergeDevices, kinds \in [1..MaxMergeDevices -> MergeDeviceKinds]}

\* args holds the devices and the application program before the merges,
\* result the application program the devices share and the loop each
\* merge is at.
InitMergeOrder ==
    /\ pc = "merging"
    /\ devices \in MergeDevices
    /\ args = [devices |-> devices,
               application |->
                  ApplicationProgramLoader_load(
                      ProgramFile(<<"M", "-", "1">>, ApplicationProgramRef).value, devices)]
    /\ result = [application |-> args.application,
                 loop |-> [i \in 1..Len(devices) |-> "arguments"]]
    /\ xml = <<>>
    /\ group_addresses = <<>>
    /\ functions = <<>>
    /\ project = None
    /\ raised = None
    /\ ExtractIdle

\* The loop over module_instance_arguments() of one device.
MergeArguments ==
    /\ pc = "merging"
    /\ \E i \in 1..Len(devices) :
          /\ result.loop[i] = "arguments"
          /\ devices' = [devices EXCEPT ![i].module_instances =
                            merge_arguments(@, result.application)]
          /\ result' = [result EXCEPT
                           !.loop[i] = "com_objects",
                           !.application = merged_application(@, devices[i])]
    /\ UNCHANGED <<pc, args, raised, xml, group_addresses, project, functions,
                   extractVars>>

\* The loop over com_object_instance_refs of one device; an exception ends
\* the merging.
MergeComObjects ==
    /\ pc = "merging"
    /\ \E i \in 1..Len(devices) :
          /\ result.loop[i] = "com_objects"
          /\ \E merged \in {merge_com_objects(devices[i].com_object_instance_refs, <<>>,
                                devices[i].module_instances, result.application,
                                devices[i].parameter_instance_refs)} :
                IF merged.raised # None
                THEN /\ raised' = merged.raised
                     /\ pc' = "failed"
                     /\ UNCHANGED <<devices, result>>
                ELSE /\ devices' = [devices EXCEPT
                                       ![i].com_object_instance_refs = merged.refs]
                     /\ result' = [result EXCEPT
                           !.loop[i] = "channels",
                           !.application = merged_application(@, devices'[i])]
                     /\ UNCHANGED <<pc, raised>>
    /\ UNCHANGED <<args, xml, group_addresses, project, functions, extractVars>>

\* The loop over channels of one device; an exception ends the merging.
MergeChannels ==
    /\ pc = "merging"
    /\ \E i \in 1..Len(devices) :
          /\ result.loop[i] = "channels"
          /\ \E merged \in {merge_channels(devices[i].channels, <<>>, devices[i],
                                           result.application)} :
                IF merged.raised # None
                THEN /\ raised' = merged.raised
                     /\ pc' = "failed"
                     /\ UNCHANGED <<devices, result>>
                ELSE /\ devices' = [devices EXCEPT ![i].channels = merged.channels]
                     /\ result' = [result EXCEPT
                           !.loop[i] = "done",
                           !.application = merged_application(@, devices'[i])]
                     /\ UNCHANGED <<pc, raised>>
    /\ UNCHANGED <<args, xml, group_addresses, project, functions, extractVars>>

NextMergeOrder == MergeArguments \/ MergeComObjects \/ MergeChannels

SpecMergeOrder == InitMergeOrder /\ [][NextMergeOrder]_vars

====
